---- MODULE Spec2Model ----
(***************************************************************************)
(* Multi-tenant client manager (clientManager), tenant client (arcaClient) *)
(* and WSAA authentication service (wsaaService) of arca_invoice_lib.      *)
(*                                                                         *)
(* Time is counted in minutes.  Goroutines are the elements of Threads;    *)
(* each one runs one call at a time and pc[t] is its position in it.       *)
(* sync.RWMutex values are records [writer, readers]; sync.Mutex values    *)
(* are the holder or NoThread.                                             *)
(***************************************************************************)
EXTENDS Integers, FiniteSets, Sequences, TLC

----------------------------------------------------------------------------
(* Bounds of the model *)

MaxTicks == 2
MaxClients == 3
MaxExchanges == 2

(* Configuration and program constants *)

SkewMinutes == 5
TicketLifetime == 1440

Threads == {"t1", "t2"}
Tenants == {"A", "B", "C"}
SharedTenants == {"A", "B"}
TheTenant == "A"
CacheSizes == {1, 2}
IdleTimeout == 1
ServiceKeys == {"wsfe", "wsfex"}
MaxIdleTimes == {0, 1}
AuthTickSteps == {1, TicketLifetime - SkewMinutes}

NoThread == "none"
NoID == ""
NoSvc == ""
NoClient == 0

VARIABLES now, ticks, config, clientCache, cacheMutex, cleanupMutex, lastCleanup,
          clients, nClients, cache, authMutex, exchanges, certOK, fatal,
          held, mutex, closed, frame, pc, local

vars == <<now, ticks, config, clientCache, cacheMutex, cleanupMutex, lastCleanup,
          clients, nClients, cache, authMutex, exchanges, certOK, fatal,
          held, mutex, closed, frame, pc, local>>

mgrVars == <<config, clientCache, cacheMutex, cleanupMutex, lastCleanup, clients, nClients>>
authVars == <<cache, authMutex, exchanges, certOK, fatal, held>>
clientVars == <<mutex, closed, frame>>

----------------------------------------------------------------------------
(* Values *)

NoEntry == [client |-> NoClient, lastUsed |-> 0, createdAt |-> 0]
NoToken == [id |-> 0, gen |-> 0, exp |-> 0, token |-> "", sign |-> ""]
NoInstance == [tenant |-> NoID, closed |-> FALSE, closeCalls |-> 0]
FreeRW == [writer |-> NoThread, readers |-> {}]
NoHeld == [svc |-> NoSvc, token |-> NoToken]
NoOp == "none"
NoResult == ""
NoFrame == [op |-> NoOp, result |-> NoResult]

NoStats == [total |-> 0, active |-> 0, inactive |-> 0, lastCleanup |-> 0]

(* A CompanyConfig: nil, or what its getters return (the certificate and    *)
(* the key by their lengths)                                                *)
NilConfig == [nil |-> TRUE, id |-> NoID, cuit |-> <<>>, cert |-> 0, key |-> 0, env |-> ""]

(* CUIT strings, as sequences of characters *)
NoCUIT == <<>>
CUIT6 == <<"2", "0", "-", "1", "2", "3", "4", "5", "6", "7", "8", "-", "6">>
CUIT3 == <<"2", "0", "-", "1", "2", "3", "4", "5", "6", "7", "8", "-", "3">>
CUIT9 == <<"2", "0", "-", "1", "2", "3", "4", "5", "6", "7", "8", "-", "9">>
CUITRem0 == <<"2", "0", "-", "0", "0", "0", "0", "0", "0", "0", "6", "-", "0">>
CUITRem1 == <<"2", "0", "-", "0", "0", "0", "0", "0", "0", "0", "1", "-", "9">>
CUITRem1Other == <<"2", "1", "-", "0", "0", "0", "0", "0", "0", "1", "3", "-", "0">>
CUITRem1Other9 == <<"2", "1", "-", "0", "0", "0", "0", "0", "0", "1", "3", "-", "9">>
CUITNoDashes == <<"2", "0", "1", "2", "3", "4", "5", "6", "7", "8", "6">>
CUITLetter == <<"2", "0", "-", "1", "2", "3", "4", "5", "6", "7", "X", "-", "6">>
CUITShort == <<"2", "0", "-", "1", "2", "3", "4", "5", "6", "7", "-", "6">>
CUITs == {NoCUIT, CUIT6, CUIT3, CUIT9, CUITRem0, CUITRem1, CUITRem1Other,
          CUITRem1Other9, CUITNoDashes, CUITLetter, CUITShort}

CompanyConfigs ==
  {NilConfig} \cup
  [nil : {FALSE}, id : {NoID, "A"}, cuit : {NoCUIT, CUIT6}, cert : {0, 1},
   key : {0, 1}, env : {"testing", "production", "staging"}]

(* The configurations ValidateCompanyConfig is called with *)
ValidatedConfigs ==
  {NilConfig} \cup
  [nil : {FALSE}, id : {NoID, "A"}, cuit : CUITs, cert : {0, 1},
   key : {0, 1}, env : {"testing", "production", "staging"}]

(* An error value: a *CompanyConfigError, bare or as the cause of an error  *)
(* made by fmt.Errorf with a prefix and %w; text is the message of an error *)
(* of the standard library (context, net/http, encoding/xml, crypto/x509),  *)
(* cause tells whether errors.Is and errors.As reach the original error     *)
NoError == [companyID |-> NoID, field |-> "", prefix |-> "", cause |-> FALSE, text |-> ""]

(* The login request of generateAccessToken and what createCMS makes of it *)
NoSignature == [key |-> "", digest |-> <<>>]
NoCMS == [encoding |-> "", content |-> <<>>, signature |-> NoSignature, certificates |-> {}]
NoRequest == [xml |-> <<>>, cms |-> NoCMS, url |-> ""]

(* A client.Config of the flat client: the certificate and the key by their *)
(* lengths, the durations and the retry count by their sign                 *)
NoFlatConfig ==
  [env |-> "", cuit |-> NoCUIT, cert |-> 0, key |-> 0, timeout |-> 0,
   retryAttempts |-> 0, retryDelay |-> 0, authCacheTTL |-> 0]

LocalInit ==
  [id |-> NoID, cached |-> NoClient, client |-> NoClient, hit |-> FALSE,
   tnow |-> 0, maxIdle |-> 0, svc |-> NoSvc, token |-> NoToken,
   seen |-> NoToken, xid |-> 0, err |-> FALSE, stats |-> NoStats,
   cfg |-> NilConfig, error |-> NoError, request |-> NoRequest, size |-> 0,
   cuit |-> NoCUIT, flat |-> NoFlatConfig, errors |-> <<>>]

(* sync.RWMutex *)
CanRLock(m) == m.writer = NoThread
CanLock(m) == m.writer = NoThread /\ m.readers = {}
RLocked(m, t) == [m EXCEPT !.readers = @ \cup {t}]
RUnlocked(m, t) == [m EXCEPT !.readers = @ \ {t}]
Locked(m, t) == [m EXCEPT !.writer = t]
Unlocked(m, t) == [m EXCEPT !.writer = NoThread]

(* len(m.clientCache) and the keys present *)
Present(cc) == {id \in Tenants : cc[id].client # NoClient}
CacheLen(cc) == Cardinality(Present(cc))

----------------------------------------------------------------------------
(* The configuration: the manager's cache settings and the tenant's         *)
(* environment, certificate and private key                                 *)
(* The fiscal identifier of the tenant that owns a private key *)
TenantCUIT(key) == IF key = "key1" THEN CUIT9 ELSE CUITRem0

Config(size, env, key) ==
  [ClientCacheSize |-> size, ClientIdleTimeout |-> IdleTimeout,
   Environment |-> env, CUIT |-> TenantCUIT(key),
   Certificate |-> "cert1", PrivateKey |-> key]

InitWith(cfg, cert) ==
  /\ now = 0
  /\ ticks = 0
  /\ config = cfg
  /\ clientCache = [id \in Tenants |-> NoEntry]
  /\ cacheMutex = FreeRW
  /\ cleanupMutex = NoThread
  /\ lastCleanup = 0
  /\ clients = [c \in 1..MaxClients |-> NoInstance]
  /\ nClients = 0
  /\ cache = [s \in ServiceKeys |-> NoToken]
  /\ authMutex = FreeRW
  /\ exchanges = 0
  /\ certOK = cert
  /\ fatal = FALSE
  /\ held = [t \in Threads |-> NoHeld]
  /\ mutex = FreeRW
  /\ closed = FALSE
  /\ frame = [t \in Threads |-> NoFrame]
  /\ pc = [t \in Threads |-> "idle"]
  /\ local = [t \in Threads |-> LocalInit]

Goto(t, label) == pc' = [pc EXCEPT ![t] = label]

(* time.Now() advancing by one minute *)
Tick ==
  /\ ticks < MaxTicks
  /\ now' = now + 1
  /\ ticks' = ticks + 1
  /\ UNCHANGED <<mgrVars, authVars, clientVars, pc, local>>

----------------------------------------------------------------------------
(* clientManager: pure parts *)

(* IsExpired with the boundary age counted as expired *)
IsExpiredAtBoundary(lastUsed, t) == t - lastUsed >= config.ClientIdleTimeout

(* time.Since(cached.lastUsed) > m.config.ClientIdleTimeout *)
IsExpired(lastUsed, t) == t - lastUsed > config.ClientIdleTimeout

(* CacheFull with the size test off by one *)
CacheFullOffByOne(cc) == CacheLen(cc) > config.ClientCacheSize

(* len(m.clientCache) >= m.config.ClientCacheSize *)
CacheFull(cc) == CacheLen(cc) >= config.ClientCacheSize

(* Oldest with the comparison reversed: the most recently used keys *)
Newest(cc) ==
  {id \in Present(cc) : \A o \in Present(cc) : ~(cc[o].lastUsed > cc[id].lastUsed)}

(* The scan of cacheClient over the map: the key kept is one whose lastUsed *)
(* no other key is Before; map iteration order is unspecified, so any key   *)
(* with the minimal lastUsed can be the one kept.                           *)
Oldest(cc) ==
  {id \in Present(cc) : \A o \in Present(cc) : ~(cc[o].lastUsed < cc[id].lastUsed)}

(* Deleted that empties the map *)
DeletedAll(cc, id) == [k \in Tenants |-> NoEntry]

(* Deleted that leaves the key in the map *)
DeletedKept(cc, id) == cc

(* delete(m.clientCache, id) *)
Deleted(cc, id) == [cc EXCEPT ![id] = NoEntry]

(* Stored that files the entry under a key other than companyID *)
StoredUnderOtherKey(cc, id, c, t) ==
  [cc EXCEPT ![CHOOSE k \in Tenants : k # id] =
     [client |-> c, lastUsed |-> t, createdAt |-> t]]

(* m.clientCache[id] = &cachedClient{client, lastUsed: now, createdAt: now} *)
Stored(cc, id, c, t) ==
  [cc EXCEPT ![id] = [client |-> c, lastUsed |-> t, createdAt |-> t]]

(* GetCompanyInfo().CompanyID of the instance c: the company ID of the      *)
(* configuration it was constructed with                                    *)
CompanyID(c) == clients[c].tenant

(* arcaClient.Close as invoked by the manager: the first call sets closed,  *)
(* later calls return nil at once; closeCalls counts the invocations.       *)
Close(cl, c) ==
  [cl EXCEPT ![c] = [@ EXCEPT !.closed = TRUE, !.closeCalls = @ + 1]]

(* cached.lastUsed.Before(cutoff) for every key, in CleanupInactiveClients *)
ToRemove(cc, cutoff) == {id \in Present(cc) : cc[id].lastUsed < cutoff}

RECURSIVE CloseAll(_, _)
CloseAll(cl, cs) ==
  IF cs = {} THEN cl
  ELSE LET c == CHOOSE x \in cs : TRUE IN CloseAll(Close(cl, c), cs \ {c})

(* errors.NewCompanyConfigError(companyID, field, message) *)
NewCompanyConfigError(companyID, field) ==
  [companyID |-> companyID, field |-> field, prefix |-> "", cause |-> TRUE, text |-> ""]

(* ValidateCompanyConfig: the checks in their order; NoError stands for nil *)
ValidateCompanyConfig(cfg) ==
  IF cfg.nil THEN NewCompanyConfigError(NoID, "config")
  ELSE IF cfg.id = NoID THEN NewCompanyConfigError(cfg.id, "company_id")
  ELSE IF cfg.cuit = NoCUIT THEN NewCompanyConfigError(cfg.id, "cuit")
  ELSE IF cfg.cert = 0 THEN NewCompanyConfigError(cfg.id, "certificate")
  ELSE IF cfg.key = 0 THEN NewCompanyConfigError(cfg.id, "private_key")
  ELSE IF cfg.env # "testing" /\ cfg.env # "production"
       THEN NewCompanyConfigError(cfg.id, "environment")
  ELSE NoError

(* Errorf with %v in place of %w: the message only, the cause is lost *)
ErrorfNoCause(prefix, e) == [e EXCEPT !.prefix = prefix, !.cause = FALSE]

(* fmt.Errorf(prefix + ": %w", e): a new error whose cause is e *)
Errorf(prefix, e) == [e EXCEPT !.prefix = prefix]

(* GetClientForCompany with a configuration that fails validation:          *)
(* return nil, fmt.Errorf("invalid company config: %w", err)                *)
GetClientInvalid(t, cfg) ==
  /\ pc[t] = "idle"
  /\ ValidateCompanyConfig(cfg) # NoError
  /\ local' = [local EXCEPT ![t] =
                 [LocalInit EXCEPT !.cfg = cfg, !.err = TRUE,
                                   !.error = Errorf("invalid company config",
                                                    ValidateCompanyConfig(cfg))]]
  /\ Goto(t, "gc_fail")
  /\ UNCHANGED <<now, ticks, mgrVars, authVars, clientVars>>

(* GetClientForCompany returns nil and the error *)
GetClientFail(t) ==
  /\ pc[t] = "gc_fail"
  /\ local' = [local EXCEPT ![t] = LocalInit]
  /\ Goto(t, "idle")
  /\ UNCHANGED <<now, ticks, mgrVars, authVars, clientVars>>

----------------------------------------------------------------------------
(* GetClientForCompany.  The configuration passed validation.  A lock       *)
(* acquisition and the statements up to the next unlock are one step; every *)
(* unlock is a step of its own, so a held lock is visible to other threads. *)

(* Number of calls that have started and may still construct a client *)
Pending == Cardinality({t \in Threads : pc[t] \in
             {"gcc_stale_runlock", "gcc_stale_lock", "gcc_stale_unlock",
              "gcc_stale_rlock", "gcc_runlock", "gc_create"}})

(* GetClientForCompany calls getCachedClient: m.cacheMutex.RLock(), the     *)
(* lookup, the staleness test and, on a fresh entry, the write of lastUsed  *)
GetCachedClient(t, id) ==
  /\ pc[t] = "idle"
  /\ nClients + Pending < MaxClients
  /\ CanRLock(cacheMutex)
  /\ cacheMutex' = RLocked(cacheMutex, t)
  /\ LET cached == clientCache[id]
         l == [LocalInit EXCEPT !.id = id]
     IN   IF cached.client = NoClient
          THEN /\ local' = [local EXCEPT ![t] = l]
               /\ Goto(t, "gcc_runlock")
               /\ UNCHANGED clientCache
          ELSE IF IsExpired(cached.lastUsed, now)
          THEN /\ local' = [local EXCEPT ![t] = [l EXCEPT !.cached = cached.client]]
               /\ Goto(t, "gcc_stale_runlock")
               /\ UNCHANGED clientCache
          ELSE /\ clientCache' = [clientCache EXCEPT ![id].lastUsed = now]
               /\ local' = [local EXCEPT ![t] = [l EXCEPT !.cached = cached.client,
                                                          !.client = cached.client,
                                                          !.hit = TRUE]]
               /\ Goto(t, "gcc_runlock")
  /\ UNCHANGED <<now, ticks, config, cleanupMutex, lastCleanup, clients, nClients, authVars, clientVars>>

(* stale entry: m.cacheMutex.RUnlock() *)
GetCachedStaleRUnlock(t) ==
  /\ pc[t] = "gcc_stale_runlock"
  /\ cacheMutex' = RUnlocked(cacheMutex, t)
  /\ Goto(t, "gcc_stale_lock")
  /\ UNCHANGED <<now, ticks, config, clientCache, cleanupMutex, lastCleanup, clients,
                 nClients, authVars, clientVars, local>>

(* stale entry: m.cacheMutex.Lock(); delete(m.clientCache, companyID).      *)
(* The key is deleted whatever it maps to now, and Close is not called.     *)
GetCachedStaleDelete(t) ==
  /\ pc[t] = "gcc_stale_lock"
  /\ CanLock(cacheMutex)
  /\ cacheMutex' = Locked(cacheMutex, t)
  /\ clientCache' = Deleted(clientCache, local[t].id)
  /\ Goto(t, "gcc_stale_unlock")
  /\ UNCHANGED <<now, ticks, config, cleanupMutex, lastCleanup, clients, nClients,
                 authVars, clientVars, local>>

(* stale entry: m.cacheMutex.Unlock() *)
GetCachedStaleUnlock(t) ==
  /\ pc[t] = "gcc_stale_unlock"
  /\ cacheMutex' = Unlocked(cacheMutex, t)
  /\ Goto(t, "gcc_stale_rlock")
  /\ UNCHANGED <<now, ticks, config, clientCache, cleanupMutex, lastCleanup, clients,
                 nClients, authVars, clientVars, local>>

(* stale entry: m.cacheMutex.RLock() again; return nil *)
GetCachedStaleRLock(t) ==
  /\ pc[t] = "gcc_stale_rlock"
  /\ CanRLock(cacheMutex)
  /\ cacheMutex' = RLocked(cacheMutex, t)
  /\ Goto(t, "gcc_runlock")
  /\ UNCHANGED <<now, ticks, config, clientCache, cleanupMutex, lastCleanup, clients,
                 nClients, authVars, clientVars, local>>

(* getCachedClient returns: the deferred m.cacheMutex.RUnlock() *)
GetCachedRUnlock(t) ==
  /\ pc[t] = "gcc_runlock"
  /\ cacheMutex' = RUnlocked(cacheMutex, t)
  /\ Goto(t, IF local[t].hit THEN "gc_return" ELSE "gc_create")
  /\ UNCHANGED <<now, ticks, config, clientCache, cleanupMutex, lastCleanup, clients,
                 nClients, authVars, clientVars, local>>

(* createNewClient: a new arcaClient instance; initializeServices cannot fail *)
CreateNewClient(t) ==
  /\ pc[t] = "gc_create"
  /\ nClients < MaxClients
  /\ nClients' = nClients + 1
  /\ clients' = [clients EXCEPT ![nClients + 1] =
                   [tenant |-> local[t].id, closed |-> FALSE, closeCalls |-> 0]]
  /\ local' = [local EXCEPT ![t].client = nClients + 1]
  /\ Goto(t, "cc_lock")
  /\ UNCHANGED <<now, ticks, config, clientCache, cacheMutex, cleanupMutex, lastCleanup,
                 authVars, clientVars>>

(* cacheClient: m.cacheMutex.Lock(); evict the oldest entry (Close, delete) *)
(* when the cache is full; store the new entry under companyID              *)
CacheClient(t) ==
  /\ pc[t] = "cc_lock"
  /\ CanLock(cacheMutex)
  /\ cacheMutex' = Locked(cacheMutex, t)
  /\ IF CacheFull(clientCache)
     THEN \E oldest \in Oldest(clientCache) :
            /\ clients' = Close(clients, clientCache[oldest].client)
            /\ clientCache' = Stored(Deleted(clientCache, oldest),
                                     local[t].id, local[t].client, now)
     ELSE /\ clientCache' = Stored(clientCache, local[t].id, local[t].client, now)
          /\ UNCHANGED clients
  /\ Goto(t, "cc_unlock")
  /\ UNCHANGED <<now, ticks, config, cleanupMutex, lastCleanup, nClients, authVars, clientVars, local>>

(* cacheClient returns: the deferred m.cacheMutex.Unlock() *)
CacheClientUnlock(t) ==
  /\ pc[t] = "cc_unlock"
  /\ cacheMutex' = Unlocked(cacheMutex, t)
  /\ Goto(t, "gc_return")
  /\ UNCHANGED <<now, ticks, config, clientCache, cleanupMutex, lastCleanup, clients,
                 nClients, authVars, clientVars, local>>

(* GetClientForCompany: return client, nil *)
GetClientReturn(t) ==
  /\ pc[t] = "gc_return"
  /\ Goto(t, "idle")
  /\ local' = [local EXCEPT ![t] = LocalInit]
  /\ UNCHANGED <<now, ticks, mgrVars, authVars, clientVars>>

----------------------------------------------------------------------------
(* InvalidateClient: m.cacheMutex.Lock(); Close and delete if present *)
InvalidateClient(t, id) ==
  /\ pc[t] = "idle"
  /\ CanLock(cacheMutex)
  /\ cacheMutex' = Locked(cacheMutex, t)
  /\ local' = [local EXCEPT ![t] = [LocalInit EXCEPT !.id = id]]
  /\ IF clientCache[id].client # NoClient
     THEN /\ clients' = Close(clients, clientCache[id].client)
          /\ clientCache' = Deleted(clientCache, id)
     ELSE UNCHANGED <<clients, clientCache>>
  /\ Goto(t, "inv_unlock")
  /\ UNCHANGED <<now, ticks, config, cleanupMutex, lastCleanup, nClients, authVars, clientVars>>

(* InvalidateClient returns: the deferred m.cacheMutex.Unlock() *)
InvalidateUnlock(t) ==
  /\ pc[t] = "inv_unlock"
  /\ cacheMutex' = Unlocked(cacheMutex, t)
  /\ Goto(t, "idle")
  /\ local' = [local EXCEPT ![t] = LocalInit]
  /\ UNCHANGED <<now, ticks, config, clientCache, cleanupMutex, lastCleanup, clients,
                 nClients, authVars, clientVars>>

----------------------------------------------------------------------------
(* CleanupInactiveClients: m.cleanupMutex.Lock(); now := time.Now() *)
CleanupInactiveClients(t, maxIdleTime) ==
  /\ pc[t] = "idle"
  /\ cleanupMutex = NoThread
  /\ cleanupMutex' = t
  /\ local' = [local EXCEPT ![t] = [LocalInit EXCEPT !.maxIdle = maxIdleTime, !.tnow = now]]
  /\ Goto(t, "cl_lock")
  /\ UNCHANGED <<now, ticks, config, clientCache, cacheMutex, lastCleanup, clients,
                 nClients, authVars, clientVars>>

(* m.cacheMutex.Lock(); both loops; m.lastCleanup = now *)
CleanupBody(t) ==
  /\ pc[t] = "cl_lock"
  /\ CanLock(cacheMutex)
  /\ cacheMutex' = Locked(cacheMutex, t)
  /\ LET toRemove == ToRemove(clientCache, local[t].tnow - local[t].maxIdle)
     IN /\ clients' = CloseAll(clients, {clientCache[id].client : id \in toRemove})
        /\ clientCache' = [id \in Tenants |->
                             IF id \in toRemove THEN NoEntry ELSE clientCache[id]]
  /\ lastCleanup' = local[t].tnow
  /\ Goto(t, "cl_unlock")
  /\ UNCHANGED <<now, ticks, config, cleanupMutex, nClients, authVars, clientVars, local>>

(* deferred m.cacheMutex.Unlock() *)
CleanupUnlock(t) ==
  /\ pc[t] = "cl_unlock"
  /\ cacheMutex' = Unlocked(cacheMutex, t)
  /\ Goto(t, "cl_munlock")
  /\ UNCHANGED <<now, ticks, config, clientCache, cleanupMutex, lastCleanup, clients,
                 nClients, authVars, clientVars, local>>

(* deferred m.cleanupMutex.Unlock() *)
CleanupMutexUnlock(t) ==
  /\ pc[t] = "cl_munlock"
  /\ cleanupMutex' = NoThread
  /\ Goto(t, "idle")
  /\ local' = [local EXCEPT ![t] = LocalInit]
  /\ UNCHANGED <<now, ticks, config, clientCache, cacheMutex, lastCleanup, clients,
                 nClients, authVars, clientVars>>

----------------------------------------------------------------------------
(* GetCacheStats: the entries the loop counts as active when each lastUsed  *)
(* is read whole: cached.lastUsed.After(cutoff)                             *)
ActiveIDs(cc, t) == {id \in Present(cc) : cc[id].lastUsed > t - config.ClientIdleTimeout}

(* InactiveIDs with the test of the cleanup pass, lastUsed.Before(cutoff) *)
InactiveIDsBefore(cc, active) ==
  {id \in Present(cc) : cc[id].lastUsed < now - config.ClientIdleTimeout}

(* the else branch of the loop *)
InactiveIDs(cc, active) == Present(cc) \ active

(* Entries whose lastUsed a lookup that holds the reader lock may be        *)
(* writing while the loop reads it (getCachedClient writes under RLock):    *)
(* the read races with the write and its comparison can go either way       *)
RacingIDs(t) ==
  {id \in Present(clientCache) :
     \E u \in Threads \ {t} : pc[u] = "gcc_runlock" /\ local[u].hit /\ local[u].id = id}

(* GetCacheStats: m.cacheMutex.RLock(); now := time.Now(); the loop; the    *)
(* CacheStats value                                                         *)
GetCacheStats(t) ==
  /\ pc[t] = "idle"
  /\ CanRLock(cacheMutex)
  /\ cacheMutex' = RLocked(cacheMutex, t)
  /\ \E flipped \in SUBSET RacingIDs(t) :
       LET whole == ActiveIDs(clientCache, now)
           active == (whole \ flipped) \cup (flipped \ whole)
           inactive == InactiveIDs(clientCache, active)
       IN local' = [local EXCEPT ![t] =
                      [LocalInit EXCEPT !.tnow = now,
                                        !.stats = [total |-> CacheLen(clientCache),
                                                   active |-> Cardinality(active),
                                                   inactive |-> Cardinality(inactive),
                                                   lastCleanup |-> lastCleanup]]]
  /\ Goto(t, "st_runlock")
  /\ UNCHANGED <<now, ticks, config, clientCache, cleanupMutex, lastCleanup, clients,
                 nClients, authVars, clientVars>>

(* GetCacheStats returns: the deferred m.cacheMutex.RUnlock() *)
GetCacheStatsRUnlock(t) ==
  /\ pc[t] = "st_runlock"
  /\ cacheMutex' = RUnlocked(cacheMutex, t)
  /\ Goto(t, "idle")
  /\ local' = [local EXCEPT ![t] = LocalInit]
  /\ UNCHANGED <<now, ticks, config, clientCache, cleanupMutex, lastCleanup, clients,
                 nClients, authVars, clientVars>>

----------------------------------------------------------------------------
(* One step of a call in progress *)
Step(t) ==
  \/ GetCachedStaleRUnlock(t)
  \/ GetCachedStaleDelete(t)
  \/ GetCachedStaleUnlock(t)
  \/ GetCachedStaleRLock(t)
  \/ GetCachedRUnlock(t)
  \/ CreateNewClient(t)
  \/ CacheClient(t)
  \/ CacheClientUnlock(t)
  \/ GetClientReturn(t)
  \/ InvalidateUnlock(t)
  \/ CleanupBody(t)
  \/ CleanupUnlock(t)
  \/ CleanupMutexUnlock(t)
  \/ GetCacheStatsRUnlock(t)

(* Two goroutines sharing one manager, calling for the tenants of SharedTenants *)
Init == \E n \in CacheSizes : InitWith(Config(n, "testing", "key1"), TRUE)

Next ==
  \/ Tick
  \/ \E t \in Threads :
       \/ \E id \in SharedTenants : GetCachedClient(t, id)
       \/ \E id \in SharedTenants : InvalidateClient(t, id)
       \/ \E d \in MaxIdleTimes : CleanupInactiveClients(t, d)
       \/ GetCacheStats(t)
       \/ Step(t)

Spec == Init /\ [][Next]_vars

(* The owner of the manager returns and drops its only reference to it: no  *)
(* call is in progress and none can follow.  The ARCAClientManager          *)
(* interface has no method to call before that, and nothing runs when the   *)
(* manager becomes unreachable.                                             *)
ReleaseManager ==
  /\ \A t \in Threads : pc[t] = "idle"
  /\ pc' = [t \in Threads |-> "released"]
  /\ UNCHANGED <<now, ticks, mgrVars, authVars, clientVars, local>>

(* One goroutine calling the manager for any of the tenants, also with      *)
(* configurations that fail validation                                      *)
NextSeq ==
  \/ Tick
  \/ \E cfg \in CompanyConfigs : GetClientInvalid("t1", cfg)
  \/ \E id \in Tenants : GetCachedClient("t1", id)
  \/ \E id \in Tenants : InvalidateClient("t1", id)
  \/ \E d \in MaxIdleTimes : CleanupInactiveClients("t1", d)
  \/ GetCacheStats("t1")
  \/ GetClientFail("t1")
  \/ Step("t1")
  \/ ReleaseManager

SpecSeq == Init /\ [][NextSeq]_vars

----------------------------------------------------------------------------
(* utils.ValidateCUIT and the manager's ValidateCompanyConfig as a call     *)

DigitChars == <<"0", "1", "2", "3", "4", "5", "6", "7", "8", "9">>
IsDigit(ch) == \E i \in 1..10 : DigitChars[i] = ch

(* strconv.Atoi of one character; 0 when it is not a digit (error dropped) *)
Atoi(ch) == IF IsDigit(ch) THEN (CHOOSE i \in 1..10 : DigitChars[i] = ch) - 1 ELSE 0

(* regexp `^\d{2}-\d{8}-\d$` *)
MatchCUIT(cuit) ==
  /\ Len(cuit) = 13
  /\ \A i \in 1..13 : IF i \in {3, 12} THEN cuit[i] = "-" ELSE IsDigit(cuit[i])

(* regexp `-` ReplaceAllString(cuit, "") *)
RemoveDashes(cuit) == SelectSeq(cuit, LAMBDA ch : ch # "-")

factors == <<5, 4, 3, 2, 7, 6, 5, 4, 3, 2>>

RECURSIVE WeightedSum(_, _)
WeightedSum(digits, n) ==
  IF n = 0 THEN 0 ELSE WeightedSum(digits, n - 1) + Atoi(digits[n]) * factors[n]

SpecialPrefixes ==
  {<<"2", "0">>, <<"2", "3">>, <<"2", "4">>, <<"2", "7">>,
   <<"3", "0">>, <<"3", "3">>, <<"3", "4">>}

(* ExpectedDigit without the special prefixes: remainder 1 always gives 0 *)
ExpectedDigitNoSpecial(digits) ==
  LET remainder == WeightedSum(digits, 10) % 11
  IN  IF remainder = 0 THEN 0
      ELSE IF remainder = 1 THEN 0
      ELSE 11 - remainder

(* expectedDigit of validateCUITCheckDigit *)
ExpectedDigit(digits) ==
  LET remainder == WeightedSum(digits, 10) % 11
  IN  IF remainder = 0 THEN 0
      ELSE IF remainder = 1
           THEN (IF SubSeq(digits, 1, 2) \in SpecialPrefixes THEN 9 ELSE 0)
      ELSE 11 - remainder

(* validateCUITCheckDigit *)
validateCUITCheckDigit(cuit) ==
  LET digits == RemoveDashes(cuit)
  IN  /\ Len(digits) = 11
      /\ Atoi(digits[11]) = ExpectedDigit(digits)

(* models.NewValidationError(field, message, value) *)
NewValidationError(field) ==
  [companyID |-> NoID, field |-> field, prefix |-> "", cause |-> TRUE, text |-> ""]

(* utils.ValidateCUIT; NoError stands for nil *)
ValidateCUIT(cuit) ==
  IF cuit = NoCUIT THEN NewValidationError("cuit")
  ELSE IF ~MatchCUIT(cuit) THEN NewValidationError("cuit")
  ELSE IF ~validateCUITCheckDigit(cuit) THEN NewValidationError("cuit")
  ELSE NoError

(* m.ValidateCompanyConfig(config) called on its own: the result is in      *)
(* local[t].error until the call returns                                    *)
ValidateCall(t, cfg) ==
  /\ pc[t] = "idle"
  /\ local' = [local EXCEPT ![t] =
                 [LocalInit EXCEPT !.cfg = cfg,
                                   !.err = (ValidateCompanyConfig(cfg) # NoError),
                                   !.error = ValidateCompanyConfig(cfg)]]
  /\ Goto(t, "vc_return")
  /\ UNCHANGED <<now, ticks, mgrVars, authVars, clientVars>>

ValidateReturn(t) ==
  /\ pc[t] = "vc_return"
  /\ local' = [local EXCEPT ![t] = LocalInit]
  /\ Goto(t, "idle")
  /\ UNCHANGED <<now, ticks, mgrVars, authVars, clientVars>>

(* CUIT strings PP-000000AB-C for some prefixes PP and all digits A, B, C *)
MakeCUIT(prefix, a, b, c) ==
  prefix \o <<"-", "0", "0", "0", "0", "0", "0", a, b, "-", c>>

Prefixes == {<<"2", "0">>, <<"2", "1">>, <<"3", "3">>}
DigitSet == {DigitChars[i] : i \in 1..10}

CheckedCUITs ==
  CUITs \cup {MakeCUIT(p, a, b, c) : p \in Prefixes, a \in {"0", "1"},
                                    b \in DigitSet, c \in DigitSet}

(* utils.ValidateCUIT(cuit) called on its own *)
ValidateCUITCall(t, cuit) ==
  /\ pc[t] = "idle"
  /\ local' = [local EXCEPT ![t] =
                 [LocalInit EXCEPT !.cuit = cuit,
                                   !.err = (ValidateCUIT(cuit) # NoError),
                                   !.error = ValidateCUIT(cuit)]]
  /\ Goto(t, "vcuit_return")
  /\ UNCHANGED <<now, ticks, mgrVars, authVars, clientVars>>

ValidateCUITReturn(t) ==
  /\ pc[t] = "vcuit_return"
  /\ local' = [local EXCEPT ![t] = LocalInit]
  /\ Goto(t, "idle")
  /\ UNCHANGED <<now, ticks, mgrVars, authVars, clientVars>>

NextValidate ==
  \/ \E cfg \in ValidatedConfigs : ValidateCall("t1", cfg)
  \/ ValidateReturn("t1")
  \/ \E cuit \in CheckedCUITs : ValidateCUITCall("t1", cuit)
  \/ ValidateCUITReturn("t1")

SpecValidate == Init /\ [][NextValidate]_vars

----------------------------------------------------------------------------
(* The flat client (pkg/client): Config.Validate and the constructor        *)

FlatConfigs ==
  [env : {"testing", "production", "invalid"},
   cuit : {NoCUIT, CUIT9, CUITNoDashes, CUITLetter, CUITShort},
   cert : {0, 1}, key : {0, 1}, timeout : {0, 1},
   retryAttempts : {-1, 0}, retryDelay : {-1, 0}, authCacheTTL : {0, 1}]

(* validateCUIT of the flat client: the length and the two dashes *)
validateCUIT(cuit) ==
  IF cuit = NoCUIT THEN NewValidationError("cuit")
  ELSE IF Len(cuit) # 13 \/ cuit[3] # "-" \/ cuit[12] # "-"
       THEN NewValidationError("cuit")
  ELSE NoError

(* errors.Add(field, ...) when the condition holds *)
Add(errors, cond, field) == IF cond THEN Append(errors, field) ELSE errors

(* Config.Validate: the fields found wrong, in the order of the checks;     *)
(* the empty sequence stands for nil                                        *)
Validate(c) ==
  LET e1 == Add(<<>>, c.env # "testing" /\ c.env # "production", "environment")
      e2 == Add(e1, c.cuit = NoCUIT \/ validateCUIT(c.cuit) # NoError, "cuit")
      e3 == Add(e2, c.cert = 0, "certificate")
      e4 == Add(e3, c.key = 0, "private_key")
      e5 == Add(e4, c.timeout <= 0, "timeout")
      e6 == Add(e5, c.retryAttempts < 0, "retry_attempts")
      e7 == Add(e6, c.retryDelay < 0, "retry_delay")
  IN  Add(e7, c.authCacheTTL <= 0, "auth_cache_ttl")

(* config.Validate() called on its own *)
ConfigValidate(t, c) ==
  /\ pc[t] = "idle"
  /\ local' = [local EXCEPT ![t] =
                 [LocalInit EXCEPT !.flat = c, !.errors = Validate(c),
                                   !.err = (Validate(c) # <<>>)]]
  /\ Goto(t, "cv_return")
  /\ UNCHANGED <<now, ticks, mgrVars, authVars, clientVars>>

(* NewAFIPClient(config): "invalid configuration: %w" when Validate fails,  *)
(* otherwise the client                                                     *)
NewAFIPClient(t, c) ==
  /\ pc[t] = "idle"
  /\ local' = [local EXCEPT ![t] =
                 [LocalInit EXCEPT
                    !.flat = c,
                    !.errors = Validate(c),
                    !.err = (Validate(c) # <<>>),
                    !.error = IF Validate(c) # <<>>
                              THEN Errorf("invalid configuration",
                                          NewValidationError(Validate(c)[1]))
                              ELSE NoError]]
  /\ Goto(t, "nc_return")
  /\ UNCHANGED <<now, ticks, mgrVars, authVars, clientVars>>

FlatReturn(t) ==
  /\ pc[t] \in {"cv_return", "nc_return"}
  /\ local' = [local EXCEPT ![t] = LocalInit]
  /\ Goto(t, "idle")
  /\ UNCHANGED <<now, ticks, mgrVars, authVars, clientVars>>

NextFlat ==
  \/ \E c \in FlatConfigs : ConfigValidate("t1", c)
  \/ \E c \in FlatConfigs : NewAFIPClient("t1", c)
  \/ FlatReturn("t1")

SpecFlat == Init /\ [][NextFlat]_vars

----------------------------------------------------------------------------
(* wsaaService (internal/services/auth); pkg/client.WSAAAuth has the same   *)
(* cache logic.  A ticket is [id, gen, exp]: id is the number of the        *)
(* exchange that produced it.                                               *)

(* TokenValid with the boundary minute counted as valid *)
TokenValidInclusive(token, t) == t + SkewMinutes <= token.exp

(* TokenValid that compares against the generation time *)
TokenValidNever(token, t) == t + SkewMinutes < token.gen

(* time.Now().Add(5 * time.Minute).Before(token.ExpirationTime) *)
TokenValid(token, t) == t + SkewMinutes < token.exp

(* Expired that leaves the entry in the map *)
ExpiredKept(c, service) == c

(* delete(s.cache, service) *)
Expired(c, service) == [c EXCEPT ![service] = NoToken]

(* &interfaces.AccessToken{GenerationTime: time.Now(),                      *)
(*                         ExpirationTime: time.Now().Add(24 * time.Hour)}  *)
NewToken(xid, t) ==
  [id |-> xid, gen |-> t, exp |-> t + TicketLifetime, token |-> "token", sign |-> "sign"]

(* The token made of a login document without credentials: xml.Unmarshal    *)
(* leaves Credentials.Token and Credentials.Sign empty and returns nil      *)
BlankToken(xid, t) == [NewToken(xid, t) EXCEPT !.token = "", !.sign = ""]

(* Calls that have started and may still invoke the transport *)
InFlight == Cardinality({t \in Threads : pc[t] \in
              {"gfc_lookup", "gfc_runlock", "gen_start"}})

(* The clock advancing by a minute, or to the first minute at which a       *)
(* ticket generated now is no longer served from the cache                  *)
TickAuth ==
  /\ ticks < MaxTicks
  /\ \E d \in AuthTickSteps : now' = now + d
  /\ ticks' = ticks + 1
  /\ UNCHANGED <<mgrVars, authVars, clientVars, pc, local>>

(* The label a nested GetToken or ClearCache returns to: the operation of   *)
(* the tenant client that made the call, or the caller of the auth service  *)
ReturnTo(t) ==
  CASE frame[t].op = "IsHealthy" -> "ih_check"
    [] frame[t].op = "AuthorizeInvoice" -> "ai_return"
    [] frame[t].op = "Close" -> "cls_unlock"
    [] frame[t].op = "InvalidateClient" -> "cls_unlock"
    [] OTHER -> "idle"

(* GetToken calls getFromCache: s.cacheMutex.RLock(); from is where the     *)
(* caller stands                                                            *)
GetTokenFrom(t, service, from) ==
  /\ ~fatal
  /\ pc[t] = from
  /\ exchanges + InFlight < MaxExchanges
  /\ CanRLock(authMutex)
  /\ authMutex' = RLocked(authMutex, t)
  /\ local' = [local EXCEPT ![t] = [LocalInit EXCEPT !.svc = service]]
  /\ Goto(t, "gfc_lookup")
  /\ UNCHANGED <<now, ticks, mgrVars, clientVars, cache, exchanges, certOK, fatal, held>>

(* GetToken called on the auth service directly *)
GetToken(t, service) == GetTokenFrom(t, service, "idle")

(* getFromCache: the map lookup and the validity test; an expired entry is  *)
(* deleted from the map while only the reader lock is held.  When another   *)
(* reader is about to access the map, the unsynchronised delete is a data   *)
(* race: the Go runtime may abort the process (concurrent map access).      *)
GetFromCache(t) ==
  /\ ~fatal
  /\ pc[t] = "gfc_lookup"
  /\ LET service == local[t].svc
         token == cache[service]
     IN IF token = NoToken
        THEN /\ UNCHANGED <<cache, fatal, local>>
        ELSE IF TokenValid(token, now)
        THEN /\ local' = [local EXCEPT ![t].seen = token, ![t].token = token,
                                       ![t].hit = TRUE, ![t].tnow = now]
             /\ UNCHANGED <<cache, fatal>>
        ELSE /\ cache' = Expired(cache, service)
             /\ local' = [local EXCEPT ![t].seen = token, ![t].tnow = now]
             /\ fatal' \in IF \E u \in Threads \ {t} : pc[u] = "gfc_lookup"
                           THEN BOOLEAN ELSE {FALSE}
  /\ Goto(t, "gfc_runlock")
  /\ UNCHANGED <<now, ticks, mgrVars, clientVars, authMutex, exchanges, certOK, held>>

(* getFromCache returns: the deferred s.cacheMutex.RUnlock() *)
GetFromCacheRUnlock(t) ==
  /\ ~fatal
  /\ pc[t] = "gfc_runlock"
  /\ authMutex' = RUnlocked(authMutex, t)
  /\ Goto(t, IF local[t].hit THEN "gt_return" ELSE "gen_start")
  /\ UNCHANGED <<now, ticks, mgrVars, clientVars, cache, exchanges, certOK, fatal, held, local>>

(* An error of the standard library with the message text *)
LibraryError(text) == [NoError EXCEPT !.text = text, !.cause = TRUE]

(* fmt.Errorf(prefix + ": %v", e): the message of e after the prefix; the   *)
(* new error does not wrap e                                                *)
ErrorfV(prefix, e) == [e EXCEPT !.prefix = prefix, !.cause = FALSE]

(* fmt.Errorf(message) without an operand *)
ErrorfText(message) == [NoError EXCEPT !.prefix = message]

(* request.Header.Destination: the literal of generateAccessToken *)
Destination(env) == "cn=wsaahomo,o=afip,c=ar,serialNumber=CUIT 33693450239"

(* getBaseURL *)
getBaseURL(env) ==
  IF env = "testing" THEN "https://wswhomo.afip.gov.ar"
  ELSE IF env = "production" THEN "https://servicios1.afip.gov.ar"
  ELSE "https://wswhomo.afip.gov.ar"

(* getWSAAURL: baseURL + "/ws/services/LoginCms" *)
getWSAAURL(env) == <<getBaseURL(env), "/ws/services/LoginCms">>

(* The WSAARequest marshalled by generateAccessToken *)
WSAARequest(service, uniqueID) ==
  [service |-> service, source |-> config.CUIT,
   destination |-> Destination(config.Environment), uniqueID |-> uniqueID]

(* sha1.Sum(data) *)
Sum(data) == <<"sha1", data>>

(* rsa.SignPKCS1v15(nil, privateKey, crypto.SHA1, hash) *)
SignPKCS1v15(privateKey, hash) == [key |-> privateKey, digest |-> hash]

(* createCMS: the hash is signed and the signature dropped (`_, err :=`);   *)
(* the message is the request text inside a cm:loginTicketRequest element,  *)
(* base64-encoded: it has no signature part and no certificate              *)
createCMS(data, cert, privateKey) ==
  LET hash == Sum(data)
      signature == SignPKCS1v15(privateKey, hash)
  IN  [encoding |-> "base64", content |-> data,
       signature |-> NoSignature, certificates |-> {}]

(* What callWSAA and the parse of its result can come to *)
Outcomes == {"ok", "nocredentials", "canceled", "timeout", "status", "unmarshal"}

(* The error generateAccessToken returns for an outcome other than ok *)
ExchangeError(outcome) ==
  IF outcome = "canceled"
    THEN ErrorfV("error making HTTP request", LibraryError("context canceled"))
  ELSE IF outcome = "timeout"
    THEN ErrorfV("error making HTTP request", LibraryError("Client.Timeout exceeded"))
  ELSE IF outcome = "status" THEN ErrorfText("HTTP error")
  ELSE ErrorfV("error unmarshaling response", LibraryError("XML syntax error"))

(* generateAccessToken up to callWSAA: parse the certificate and the key,   *)
(* build and sign the request, send it; a parse failure returns an error    *)
(* before anything is sent.                                                 *)
GenerateAccessToken(t) ==
  /\ ~fatal
  /\ pc[t] = "gen_start"
  /\ IF certOK
     THEN /\ exchanges' = exchanges + 1
          /\ LET data == WSAARequest(local[t].svc, exchanges + 1)
             IN  local' = [local EXCEPT
                    ![t].xid = exchanges + 1,
                    ![t].request =
                       [xml |-> data,
                        cms |-> createCMS(data, config.Certificate, config.PrivateKey),
                        url |-> getWSAAURL(config.Environment)]]
          /\ Goto(t, "gen_wait")
     ELSE /\ local' = [local EXCEPT
                 ![t].err = TRUE,
                 ![t].error = ErrorfV("error parsing certificate",
                                      LibraryError("x509: malformed certificate"))]
          /\ Goto(t, "gt_return")
          /\ UNCHANGED exchanges
  /\ UNCHANGED <<now, ticks, mgrVars, clientVars, cache, authMutex, certOK, fatal, held>>

(* ReceiveResponse that stores a ticket although the exchange failed *)
ReceiveResponseCaching(t) ==
  /\ ~fatal
  /\ pc[t] = "gen_wait"
  /\ \E outcome \in Outcomes :
       local' = [local EXCEPT ![t].token = NewToken(local[t].xid, now),
                              ![t].err = (outcome \notin {"ok", "nocredentials"}),
                              ![t].error = IF outcome \in {"ok", "nocredentials"}
                                           THEN NoError
                                           ELSE ExchangeError(outcome)]
  /\ Goto(t, "atc_lock")
  /\ UNCHANGED <<now, ticks, mgrVars, authVars, clientVars>>

(* callWSAA returns and the response is parsed: an error (the context       *)
(* cancelled or the client's timeout reached during client.Do, a status     *)
(* other than 200, an unparsable body) or a new token stamped with          *)
(* time.Now()                                                               *)
ReceiveResponse(t) ==
  /\ ~fatal
  /\ pc[t] = "gen_wait"
  /\ \E outcome \in Outcomes :
       IF outcome = "ok"
       THEN /\ local' = [local EXCEPT ![t].token = NewToken(local[t].xid, now)]
            /\ Goto(t, "atc_lock")
       ELSE IF outcome = "nocredentials"
       THEN /\ local' = [local EXCEPT ![t].token = BlankToken(local[t].xid, now)]
            /\ Goto(t, "atc_lock")
       ELSE /\ local' = [local EXCEPT ![t].err = TRUE,
                                      ![t].error = ExchangeError(outcome)]
            /\ Goto(t, "gt_return")
  /\ UNCHANGED <<now, ticks, mgrVars, authVars, clientVars>>

(* AddToCache that keeps an entry already present for the key *)
AddToCacheIfAbsent(t) ==
  /\ ~fatal
  /\ pc[t] = "atc_lock"
  /\ CanLock(authMutex)
  /\ authMutex' = Locked(authMutex, t)
  /\ cache' = IF cache[local[t].svc] = NoToken
              THEN [cache EXCEPT ![local[t].svc] = local[t].token]
              ELSE cache
  /\ Goto(t, "atc_unlock")
  /\ UNCHANGED <<now, ticks, mgrVars, clientVars, exchanges, certOK, fatal, held, local>>

(* addToCache: s.cacheMutex.Lock(); s.cache[service] = token *)
AddToCache(t) ==
  /\ ~fatal
  /\ pc[t] = "atc_lock"
  /\ CanLock(authMutex)
  /\ authMutex' = Locked(authMutex, t)
  /\ cache' = [cache EXCEPT ![local[t].svc] = local[t].token]
  /\ Goto(t, "atc_unlock")
  /\ UNCHANGED <<now, ticks, mgrVars, clientVars, exchanges, certOK, fatal, held, local>>

(* addToCache returns: the deferred s.cacheMutex.Unlock() *)
AddToCacheUnlock(t) ==
  /\ ~fatal
  /\ pc[t] = "atc_unlock"
  /\ authMutex' = Unlocked(authMutex, t)
  /\ Goto(t, "gt_return")
  /\ UNCHANGED <<now, ticks, mgrVars, clientVars, cache, exchanges, certOK, fatal, held, local>>

(* GetToken returns the token or the error; the caller keeps the token *)
GetTokenReturn(t) ==
  /\ ~fatal
  /\ pc[t] = "gt_return"
  /\ held' = [held EXCEPT ![t] = IF local[t].err THEN NoHeld
                                 ELSE [svc |-> local[t].svc, token |-> local[t].token]]
  /\ local' = [local EXCEPT ![t] = LocalInit]
  /\ Goto(t, ReturnTo(t))
  /\ UNCHANGED <<now, ticks, mgrVars, clientVars, cache, authMutex, exchanges, certOK, fatal>>

(* ClearCacheFrom that removes only the tickets no longer valid *)
ClearCacheKeepsValid(t, from) ==
  /\ ~fatal
  /\ pc[t] = from
  /\ CanLock(authMutex)
  /\ authMutex' = Locked(authMutex, t)
  /\ cache' = [s \in ServiceKeys |->
                IF cache[s] # NoToken /\ TokenValid(cache[s], now)
                THEN cache[s] ELSE NoToken]
  /\ held' = [held EXCEPT ![t] = NoHeld]
  /\ local' = [local EXCEPT ![t] = LocalInit]
  /\ Goto(t, "clr_unlock")
  /\ UNCHANGED <<now, ticks, mgrVars, clientVars, exchanges, certOK, fatal>>

(* ClearCache: s.cacheMutex.Lock(); s.cache = make(map) *)
ClearCacheFrom(t, from) ==
  /\ ~fatal
  /\ pc[t] = from
  /\ CanLock(authMutex)
  /\ authMutex' = Locked(authMutex, t)
  /\ cache' = [s \in ServiceKeys |-> NoToken]
  /\ held' = [held EXCEPT ![t] = NoHeld]
  /\ local' = [local EXCEPT ![t] = LocalInit]
  /\ Goto(t, "clr_unlock")
  /\ UNCHANGED <<now, ticks, mgrVars, clientVars, exchanges, certOK, fatal>>

(* ClearCache called on the auth service directly *)
ClearCache(t) == ClearCacheFrom(t, "idle")

(* ClearCache returns: the deferred s.cacheMutex.Unlock() *)
ClearCacheUnlock(t) ==
  /\ ~fatal
  /\ pc[t] = "clr_unlock"
  /\ authMutex' = Unlocked(authMutex, t)
  /\ Goto(t, ReturnTo(t))
  /\ UNCHANGED <<now, ticks, mgrVars, clientVars, cache, exchanges, certOK, fatal, held, local>>

(* len(s.cache) *)
CacheSize(c) == Cardinality({s \in ServiceKeys : c[s] # NoToken})

(* GetCacheSize: s.cacheMutex.RLock(); len(s.cache) *)
GetCacheSize(t) ==
  /\ ~fatal
  /\ pc[t] = "idle"
  /\ CanRLock(authMutex)
  /\ authMutex' = RLocked(authMutex, t)
  /\ local' = [local EXCEPT ![t] = [LocalInit EXCEPT !.size = CacheSize(cache)]]
  /\ Goto(t, "gcs_runlock")
  /\ UNCHANGED <<now, ticks, mgrVars, clientVars, cache, exchanges, certOK, fatal, held>>

(* GetCacheSize returns the length: the deferred s.cacheMutex.RUnlock() *)
GetCacheSizeRUnlock(t) ==
  /\ ~fatal
  /\ pc[t] = "gcs_runlock"
  /\ authMutex' = RUnlocked(authMutex, t)
  /\ local' = [local EXCEPT ![t] = LocalInit]
  /\ Goto(t, "idle")
  /\ UNCHANGED <<now, ticks, mgrVars, clientVars, cache, exchanges, certOK, fatal, held>>

(* One step of a GetToken or ClearCache call in progress *)
AuthStep(t) ==
  \/ GetFromCache(t)
  \/ GetFromCacheRUnlock(t)
  \/ GenerateAccessToken(t)
  \/ ReceiveResponse(t)
  \/ AddToCache(t)
  \/ AddToCacheUnlock(t)
  \/ GetTokenReturn(t)
  \/ ClearCacheUnlock(t)

(* One auth service; its certificate and key parse or do not *)
InitAuth == \E cert \in BOOLEAN : InitWith(Config(1, "testing", "key1"), cert)

(* Goroutines sharing the auth service *)
NextAuth ==
  \/ TickAuth
  \/ \E t \in Threads :
       \/ \E service \in ServiceKeys : GetToken(t, service)
       \/ ClearCache(t)
       \/ GetCacheSize(t)
       \/ GetCacheSizeRUnlock(t)
       \/ AuthStep(t)

SpecAuth == InitAuth /\ [][NextAuth]_vars

(* A single caller of the auth service *)
NextAuthSeq ==
  \/ TickAuth
  \/ \E service \in ServiceKeys : GetToken("t1", service)
  \/ ClearCache("t1")
  \/ GetCacheSize("t1")
  \/ GetCacheSizeRUnlock("t1")
  \/ AuthStep("t1")

SpecAuthSeq == InitAuth /\ [][NextAuthSeq]_vars

(* A single caller of the auth service of a tenant of either environment *)
Environments == {"testing", "production"}
PrivateKeys == {"key1", "key2"}

InitLogin ==
  \E cert \in BOOLEAN, env \in Environments, key \in PrivateKeys :
    InitWith(Config(1, env, key), cert)

SpecLogin == InitLogin /\ [][NextAuthSeq]_vars

----------------------------------------------------------------------------
(* arcaClient (internal/client): one tenant client shared by goroutines.    *)
(* frame[t] is the operation of the client that t is inside and the result  *)
(* it is going to return; the auth service is reached only through the      *)
(* client: by IsHealthy, by Close and by the operations of its handles.     *)

Calling(t, op) == frame[t].op = op
Enter(t, op, result) == frame' = [frame EXCEPT ![t] = [op |-> op, result |-> result]]
Leave(t) == frame' = [frame EXCEPT ![t] = NoFrame]

(* Close that leaves the flag unset *)
MarkClosedForgotten(c) == c

(* c.closed = true *)
MarkClosed(c) == TRUE

(* WSFE(), WSFEX() and GetCompanyInfo(): each returns its field of the      *)
(* client; none of them reads c.closed or takes c.mutex                     *)
Getter(t, op) ==
  /\ pc[t] = "idle"
  /\ Enter(t, op, "value")
  /\ Goto(t, "get_return")
  /\ UNCHANGED <<now, ticks, mgrVars, authVars, mutex, closed, local>>

WSFE(t) == Getter(t, "WSFE")
WSFEX(t) == Getter(t, "WSFEX")
GetCompanyInfo(t) == Getter(t, "GetCompanyInfo")

GetterReturn(t) ==
  /\ pc[t] = "get_return"
  /\ Leave(t)
  /\ Goto(t, "idle")
  /\ UNCHANGED <<now, ticks, mgrVars, authVars, mutex, closed, local>>

(* IsHealthy: c.mutex.RLock(); if c.closed, return "client is closed" *)
IsHealthy(t) ==
  /\ pc[t] = "idle"
  /\ CanRLock(mutex)
  /\ mutex' = RLocked(mutex, t)
  /\ IF closed
     THEN Enter(t, "IsHealthy", "ClientClosed") /\ Goto(t, "ih_runlock")
     ELSE Enter(t, "IsHealthy", NoResult) /\ Goto(t, "ih_call")
  /\ UNCHANGED <<now, ticks, mgrVars, authVars, closed, local>>

(* IsHealthyGetToken that asks for the ticket of the export service *)
IsHealthyGetTokenOtherKey(t) == GetTokenFrom(t, "wsfex", "ih_call")

(* IsHealthy: c.authService.GetToken(ctx, "wsfe"), with c.mutex read-held *)
IsHealthyGetToken(t) == GetTokenFrom(t, "wsfe", "ih_call")

(* IsHealthy: if err != nil, "health check failed: %w"; otherwise nil *)
IsHealthyCheck(t) ==
  /\ pc[t] = "ih_check"
  /\ frame' = [frame EXCEPT ![t].result =
                 IF held[t].token = NoToken THEN "HealthCheckFailed" ELSE "nil"]
  /\ Goto(t, "ih_runlock")
  /\ UNCHANGED <<now, ticks, mgrVars, authVars, mutex, closed, local>>

(* IsHealthy returns nil or "health check failed"; the deferred             *)
(* c.mutex.RUnlock()                                                        *)
IsHealthyRUnlock(t) ==
  /\ pc[t] = "ih_runlock"
  /\ mutex' = RUnlocked(mutex, t)
  /\ Leave(t)
  /\ Goto(t, "idle")
  /\ UNCHANGED <<now, ticks, mgrVars, authVars, closed, local>>

(* wsfeService.AuthorizeInvoice through the handle WSFE() returned:         *)
(* validateInvoice, then s.authService.GetToken; the service holds no       *)
(* reference to the client and reads no closed flag                         *)
AuthorizeInvoice(t) ==
  /\ pc[t] = "idle"
  /\ \E valid \in BOOLEAN :
       IF valid
       THEN Enter(t, "AuthorizeInvoice", NoResult) /\ Goto(t, "ai_call")
       ELSE Enter(t, "AuthorizeInvoice", "InvalidInvoice") /\ Goto(t, "ai_return")
  /\ UNCHANGED <<now, ticks, mgrVars, authVars, mutex, closed, local>>

(* AuthorizeInvoice: s.authService.GetToken(ctx, "wsfe") *)
AuthorizeInvoiceGetToken(t) == GetTokenFrom(t, "wsfe", "ai_call")

(* AuthorizeInvoice returns the simulated response or "auth failed" *)
AuthorizeInvoiceReturn(t) ==
  /\ pc[t] = "ai_return"
  /\ Leave(t)
  /\ Goto(t, "idle")
  /\ UNCHANGED <<now, ticks, mgrVars, authVars, mutex, closed, local>>

(* Close is called: the goroutine waits for c.mutex *)
CloseCall(t) ==
  /\ pc[t] = "idle"
  /\ Enter(t, "Close", NoResult)
  /\ Goto(t, "cls_lock")
  /\ UNCHANGED <<now, ticks, mgrVars, authVars, mutex, closed, local>>

(* Close: c.mutex.Lock(); if c.closed return nil; c.closed = true *)
ClientClose(t) ==
  /\ pc[t] = "cls_lock"
  /\ CanLock(mutex)
  /\ mutex' = Locked(mutex, t)
  /\ IF closed
     THEN /\ Goto(t, "cls_noop")
          /\ UNCHANGED closed
     ELSE /\ closed' = MarkClosed(closed)
          /\ Goto(t, "cls_clear")
  /\ frame' = [frame EXCEPT ![t].result = "nil"]
  /\ UNCHANGED <<now, ticks, mgrVars, authVars, local>>

(* Close: c.authService.ClearCache(), with c.mutex held *)
CloseClearCache(t) == ClearCacheFrom(t, "cls_clear")

(* Close returns nil, early ("cls_noop") or at its end; the deferred        *)
(* c.mutex.Unlock()                                                         *)
CloseUnlock(t) ==
  /\ pc[t] \in {"cls_noop", "cls_unlock"}
  /\ mutex' = Unlocked(mutex, t)
  /\ IF Calling(t, "InvalidateClient")
     THEN UNCHANGED frame /\ Goto(t, "inv_delete")
     ELSE Leave(t) /\ Goto(t, "idle")
  /\ UNCHANGED <<now, ticks, mgrVars, authVars, closed, local>>

(* InvalidateClient for the tenant whose client is the one of mutex, closed  *)
(* and cache: m.cacheMutex.Lock(), the lookup and the call of               *)
(* cached.client.Close(), which then waits for c.mutex                      *)
InvalidateTenant(t) ==
  /\ pc[t] = "idle"
  /\ CanLock(cacheMutex)
  /\ cacheMutex' = Locked(cacheMutex, t)
  /\ local' = [local EXCEPT ![t] = [LocalInit EXCEPT !.id = TheTenant]]
  /\ IF clientCache[TheTenant].client # NoClient
     THEN Enter(t, "InvalidateClient", NoResult) /\ Goto(t, "cls_lock")
     ELSE UNCHANGED frame /\ Goto(t, "inv_unlock")
  /\ UNCHANGED <<now, ticks, config, clientCache, cleanupMutex, lastCleanup,
                 clients, nClients, authVars, mutex, closed>>

(* InvalidateClient after Close returned: delete(m.clientCache, companyID) *)
InvalidateDelete(t) ==
  /\ pc[t] = "inv_delete"
  /\ clients' = Close(clients, clientCache[TheTenant].client)
  /\ clientCache' = Deleted(clientCache, TheTenant)
  /\ Leave(t)
  /\ Goto(t, "inv_unlock")
  /\ UNCHANGED <<now, ticks, config, cacheMutex, cleanupMutex, lastCleanup,
                 nClients, authVars, mutex, closed, local>>

(* One step of an operation of the client in progress *)
ClientStep(t) ==
  \/ GetterReturn(t)
  \/ IsHealthyGetToken(t)
  \/ IsHealthyCheck(t)
  \/ IsHealthyRUnlock(t)
  \/ AuthorizeInvoiceGetToken(t)
  \/ AuthorizeInvoiceReturn(t)
  \/ ClientClose(t)
  \/ CloseClearCache(t)
  \/ CloseUnlock(t)
  \/ AuthStep(t)

(* Goroutines sharing one tenant client and the handles it gave out *)
NextClient ==
  \E t \in Threads :
    \/ WSFE(t)
    \/ WSFEX(t)
    \/ GetCompanyInfo(t)
    \/ IsHealthy(t)
    \/ AuthorizeInvoice(t)
    \/ CloseCall(t)
    \/ ClientStep(t)

SpecClient == InitAuth /\ [][NextClient]_vars

(* The manager after GetClientForCompany has returned the client of         *)
(* TheTenant at time 0: the entry is in the cache, the client is open and   *)
(* its callers hold it                                                      *)
InitTenant ==
  /\ now = 0
  /\ ticks = 0
  /\ config = Config(1, "testing", "key1")
  /\ clientCache = Stored([id \in Tenants |-> NoEntry], TheTenant, 1, 0)
  /\ cacheMutex = FreeRW
  /\ cleanupMutex = NoThread
  /\ lastCleanup = 0
  /\ clients = [c \in 1..MaxClients |->
                  IF c = 1 THEN [NoInstance EXCEPT !.tenant = TheTenant]
                  ELSE NoInstance]
  /\ nClients = 1
  /\ cache = [s \in ServiceKeys |-> NoToken]
  /\ authMutex = FreeRW
  /\ exchanges = 0
  /\ certOK = TRUE
  /\ fatal = FALSE
  /\ held = [t \in Threads |-> NoHeld]
  /\ mutex = FreeRW
  /\ closed = FALSE
  /\ frame = [t \in Threads |-> NoFrame]
  /\ pc = [t \in Threads |-> "idle"]
  /\ local = [t \in Threads |-> LocalInit]

(* Goroutines using the tenant's client while others call the manager *)
NextTenant ==
  \E t \in Threads :
    \/ IsHealthy(t)
    \/ InvalidateTenant(t)
    \/ InvalidateDelete(t)
    \/ InvalidateUnlock(t)
    \/ IsHealthyGetToken(t)
    \/ IsHealthyCheck(t)
    \/ IsHealthyRUnlock(t)
    \/ ClientClose(t)
    \/ CloseClearCache(t)
    \/ CloseUnlock(t)
    \/ AuthStep(t)

SpecTenant == InitTenant /\ [][NextTenant]_vars

(* A ticket obtained by an exchange before the interval looked at *)
EarlierToken == NewToken(0, 0)

(* The client after an IsHealthy has returned nil at time 0: the ticket of  *)
(* wsfe is in the cache; exchanges counts the exchanges from here on        *)
InitLive ==
  /\ now = 0
  /\ ticks = 0
  /\ config = Config(1, "testing", "key1")
  /\ clientCache = [id \in Tenants |-> NoEntry]
  /\ cacheMutex = FreeRW
  /\ cleanupMutex = NoThread
  /\ lastCleanup = 0
  /\ clients = [c \in 1..MaxClients |-> NoInstance]
  /\ nClients = 0
  /\ cache = [s \in ServiceKeys |-> IF s = "wsfe" THEN EarlierToken ELSE NoToken]
  /\ authMutex = FreeRW
  /\ exchanges = 0
  /\ certOK = TRUE
  /\ fatal = FALSE
  /\ held = [t \in Threads |-> NoHeld]
  /\ mutex = FreeRW
  /\ closed = FALSE
  /\ frame = [t \in Threads |-> NoFrame]
  /\ pc = [t \in Threads |-> "idle"]
  /\ local = [t \in Threads |-> LocalInit]

(* IsHealthy is called while an exchange is left for every call in progress *)
IsHealthyStart(t) ==
  /\ exchanges + Cardinality({u \in Threads : Calling(u, "IsHealthy")}) < MaxExchanges
  /\ IsHealthy(t)

(* One step of an IsHealthy or Close call in progress *)
LiveStep(t) ==
  \/ IsHealthyGetToken(t)
  \/ IsHealthyCheck(t)
  \/ IsHealthyRUnlock(t)
  \/ ClientClose(t)
  \/ CloseClearCache(t)
  \/ CloseUnlock(t)
  \/ AuthStep(t)

NextLive ==
  \/ TickAuth
  \/ \E t \in Threads :
       \/ IsHealthyStart(t)
       \/ CloseCall(t)
       \/ LiveStep(t)

(* Fair scheduling: a goroutine whose next step is possible again and again *)
(* takes it (sync.Mutex and sync.RWMutex hand the lock to a waiter), and    *)
(* the transport answers every request (ReceiveResponse is a step)          *)
SpecLive ==
  /\ InitLive
  /\ [][NextLive]_vars
  /\ \A t \in Threads : SF_vars(LiveStep(t))

----------------------------------------------------------------------------
(* Properties of the tenant cache *)

Created == 1..nClients

(* The call of t is a GetClientForCompany about to return local[t].client *)
Returning(t) == pc[t] = "gc_return"

(* c was constructed and is not yet stored in the cache *)
NotYetCached(c) == \E t \in Threads : pc[t] = "cc_lock" /\ local[t].client = c

InCache(c) == \E id \in Tenants : clientCache[id].client = c

(* c was stored in the cache and is no longer in it *)
LeftCache(c) == c \in Created /\ ~InCache(c) /\ ~NotYetCached(c)

(* C1: under any interleaving of GetClient, Invalidate and CleanupInactive, *)
(* the tenant cache never holds more than ClientCacheSize entries.          *)
CacheBounded == CacheLen(clientCache) <= config.ClientCacheSize

(* C1 witness: an insertion into a full cache evicted another tenant's      *)
(* client and left the cache exactly at its bound.                          *)
CacheBoundedWitness ==
  \E t \in Threads :
    /\ pc[t] = "cc_unlock"
    /\ CacheLen(clientCache) = config.ClientCacheSize
    /\ \E c \in Created : clients[c].closed /\ clients[c].tenant # local[t].id

(* C2: every client that has left the cache (eviction, Invalidate,          *)
(* CleanupInactive, replacement) has had Close invoked exactly once, at any *)
(* later instant and so before a replacement is constructed.                *)
RemovedClosedOnce == \A c \in Created : LeftCache(c) => clients[c].closeCalls = 1

(* C3: once GetClient found a stale entry, Close has been invoked on that   *)
(* entry's client by the time the entry is removed, and the client the call *)
(* returns is another instance.                                             *)
StaleEntryClosed ==
  \A t \in Threads :
    (pc[t] \in {"gcc_stale_unlock", "gcc_stale_rlock", "gc_create", "cc_lock",
                "cc_unlock", "gc_return"} /\ local[t].cached # NoClient /\ ~local[t].hit)
      => /\ clients[local[t].cached].closeCalls >= 1
         /\ local[t].client # local[t].cached

(* C4: the stale-eviction step removes the entry only if it is still the    *)
(* stale entry the call observed, never one stored in the meantime.         *)
StaleDeleteOnlyObserved ==
  [][\A t \in Threads :
       (pc[t] = "gcc_stale_lock" /\ pc'[t] = "gcc_stale_unlock"
          /\ clientCache[local[t].id].client # NoClient)
         => clientCache[local[t].id].client = local[t].cached]_vars

(* C5: when two GetClient calls for one tenant return different clients,    *)
(* the one whose client is not the cached one has had its client Closed.    *)
LoserClosed ==
  \A t, u \in Threads :
    (Returning(t) /\ Returning(u) /\ local[t].id = local[u].id
       /\ local[t].client # local[u].client
       /\ clientCache[local[t].id].client # local[t].client)
      => clients[local[t].client].closed

(* C6 as stated: a client is not Closed at the moment GetClient returns it *)
ReturnedNotClosed ==
  \A t \in Threads : Returning(t) => ~clients[local[t].client].closed

(* C6 amended: the client a call is going to return is not Closed for as    *)
(* long as the call holds the cache lock under which it looked the entry up *)
(* or stored it.                                                            *)
LockedResultNotClosed ==
  \A t \in Threads :
    ((pc[t] = "gcc_runlock" /\ local[t].hit) \/ pc[t] = "cc_unlock")
      => ~clients[local[t].client].closed

(* C6 witness: a lookup hit holds the reader lock while a cleanup pass of   *)
(* another thread waits for the writer lock.                                *)
LockedResultWitness ==
  \E t, u \in Threads :
    /\ pc[t] = "gcc_runlock" /\ local[t].hit
    /\ pc[u] = "cl_lock"
    /\ clientCache[local[t].id].lastUsed < local[u].tnow - local[u].maxIdle + 1

(* C7: the lookup returns the cached client exactly when the entry's age is *)
(* within the idle timeout; it then stamps the entry with now and hands out *)
(* the instance the entry holds; a stale entry is never handed out.         *)
FreshHitOnly ==
  [][\A t \in Threads :
       (pc[t] = "idle" /\ pc'[t] \in {"gcc_runlock", "gcc_stale_runlock"})
         => LET id == local'[t].id
                e == clientCache[id]
            IN /\ local'[t].hit <=>
                    (e.client # NoClient /\ now - e.lastUsed <= config.ClientIdleTimeout)
               /\ local'[t].hit =>
                    /\ local'[t].client = e.client
                    /\ clientCache'[id].client = e.client
                    /\ clientCache'[id].lastUsed = now
               /\ ~local'[t].hit => local'[t].client = NoClient /\ clientCache' = clientCache]_vars

(* C7 witness: a hit on an entry whose age was exactly the idle timeout *)
FreshHitWitness ==
  \E t \in Threads :
    /\ pc[t] = "gcc_runlock" /\ local[t].hit
    /\ clientCache[local[t].id].lastUsed =
         clientCache[local[t].id].createdAt + config.ClientIdleTimeout

(* C15: an insertion into a cache holding at least ClientCacheSize entries  *)
(* evicts exactly one entry, one whose last-used time no other entry's is   *)
(* before: Close is invoked once on its client and on no other client, its  *)
(* key leaves the cache and no other entry changes; an insertion into a     *)
(* cache below the bound evicts nothing.                                    *)
LRUEviction ==
  [][\A t \in Threads :
       (pc[t] = "cc_lock" /\ pc'[t] = "cc_unlock")
         => IF CacheLen(clientCache) >= config.ClientCacheSize
            THEN \E v \in Present(clientCache) :
                   LET vc == clientCache[v].client
                   IN /\ \A o \in Present(clientCache) :
                           clientCache[v].lastUsed <= clientCache[o].lastUsed
                      /\ clients'[vc].closeCalls = clients[vc].closeCalls + 1
                      /\ clients'[vc].closed
                      /\ \A c \in (1..MaxClients) \ {vc} : clients'[c] = clients[c]
                      /\ \A id \in Tenants : clientCache'[id].client # vc
                      /\ Present(clientCache') =
                           (Present(clientCache) \ {v}) \cup {local[t].id}
                      /\ \A o \in Present(clientCache) \ {v, local[t].id} :
                           clientCache'[o] = clientCache[o]
            ELSE /\ clients' = clients
                 /\ Present(clientCache') = Present(clientCache) \cup {local[t].id}
                 /\ \A o \in Present(clientCache) \ {local[t].id} :
                      clientCache'[o] = clientCache[o]]_vars

(* C15 witness: bound 2; GetClient(A), GetClient(B), GetClient(A) a minute  *)
(* later, GetClient(C): B's client was Closed once, A's was not, and the    *)
(* cache holds exactly A and C.                                             *)
LRUEvictionWitness ==
  /\ config.ClientCacheSize = 2
  /\ pc["t1"] = "cc_unlock" /\ local["t1"].id = "C"
  /\ nClients = 3
  /\ clients[1] = [tenant |-> "A", closed |-> FALSE, closeCalls |-> 0]
  /\ clients[2] = [tenant |-> "B", closed |-> TRUE, closeCalls |-> 1]
  /\ clients[3] = [tenant |-> "C", closed |-> FALSE, closeCalls |-> 0]
  /\ Present(clientCache) = {"A", "C"}
  /\ clientCache["A"].client = 1 /\ clientCache["C"].client = 3
  /\ clientCache["A"].lastUsed > clientCache["A"].createdAt

(* C16: InvalidateClient(T) Closes T's client once and removes T's entry    *)
(* when one is present and changes nothing otherwise; it reports no error;  *)
(* no other tenant's entry and no other client changes; T has no entry      *)
(* afterwards, so an Invalidate(T) that follows at once changes nothing.    *)
InvalidateFrame ==
  [][\A t \in Threads :
       (pc[t] = "idle" /\ pc'[t] = "inv_unlock")
         => LET id == local'[t].id
                c == clientCache[id].client
            IN /\ IF c # NoClient
                  THEN /\ clients'[c].closed
                       /\ clients'[c].closeCalls = clients[c].closeCalls + 1
                       /\ \A o \in (1..MaxClients) \ {c} : clients'[o] = clients[o]
                  ELSE clients' = clients /\ clientCache' = clientCache
               /\ clientCache'[id] = NoEntry
               /\ \A o \in Tenants \ {id} : clientCache'[o] = clientCache[o]
               /\ ~local'[t].err
               /\ UNCHANGED <<lastCleanup, nClients>>]_vars

(* C16 witness: Invalidate has Closed and removed the entry of its tenant   *)
(* while the entry of another tenant stays in the cache                     *)
InvalidateFrameWitness ==
  \E t \in Threads : \E c \in Created :
    /\ pc[t] = "inv_unlock"
    /\ CompanyID(c) = local[t].id
    /\ clients[c].closeCalls = 1
    /\ ~InCache(c)
    /\ Present(clientCache) # {}

(* C17: a cleanup pass removes, with Close on its client, exactly the       *)
(* entries whose last-used time is <= now - maxIdle, keeps the others as    *)
(* they are and records now as the last-cleanup time.                       *)
CleanupRemovesAtCutoff ==
  [][\A t \in Threads :
       (pc[t] = "cl_lock" /\ pc'[t] = "cl_unlock")
         => LET cutoff == local[t].tnow - local[t].maxIdle
                due == {id \in Present(clientCache) : clientCache[id].lastUsed <= cutoff}
            IN /\ Present(clientCache') = Present(clientCache) \ due
               /\ \A id \in due : clients'[clientCache[id].client].closeCalls =
                                      clients[clientCache[id].client].closeCalls + 1
               /\ \A id \in Tenants \ due : clientCache'[id] = clientCache[id]
               /\ lastCleanup' = local[t].tnow]_vars

(* C18: the statistics a GetCacheStats call is about to return satisfy      *)
(* total = active + inactive with both counts non-negative, and total is    *)
(* the number of entries in the cache, whatever other threads are doing.    *)
StatsConsistent ==
  \A t \in Threads :
    pc[t] = "st_runlock"
      => LET st == local[t].stats
         IN /\ st.total = st.active + st.inactive
            /\ st.active >= 0 /\ st.inactive >= 0
            /\ st.total = CacheLen(clientCache)

(* C18 witness: statistics with an entry exactly at the idle cutoff, taken  *)
(* while a cleanup pass of another thread waits for the writer lock         *)
StatsConsistentWitness ==
  \E t, u \in Threads :
    /\ pc[t] = "st_runlock"
    /\ local[t].stats.total = 2
    /\ local[t].stats.active = 1
    /\ \E id \in Present(clientCache) :
         clientCache[id].lastUsed = local[t].tnow - config.ClientIdleTimeout
    /\ pc[u] = "cl_lock"

(* C19: the client a GetClientForCompany call for tenant T is about to      *)
(* return reports T as its company ID, on a hit and after construction.     *)
ReturnedClientOfTenant ==
  \A t \in Threads : Returning(t) => CompanyID(local[t].client) = local[t].id

(* C19 witness: two calls about to return, one from a cache hit and one     *)
(* after construction, for different tenants                                *)
ReturnedClientWitness ==
  \E t, u \in Threads :
    /\ Returning(t) /\ local[t].hit
    /\ Returning(u) /\ ~local[u].hit
    /\ local[t].id # local[u].id

(* C20 as stated: a call whose configuration fails validation returns the   *)
(* error of ValidateCompanyConfig itself, not wrapped, and has constructed  *)
(* no client, started no exchange and left the tenant cache as it was.      *)
InvalidReturnsBareError ==
  \A t \in Threads :
    pc[t] = "gc_fail"
      => /\ local[t].error = ValidateCompanyConfig(local[t].cfg)
         /\ local[t].client = NoClient

(* C20 amended: the call returns an error that wraps the error of           *)
(* ValidateCompanyConfig under the prefix "invalid company config", its     *)
(* cause being that CompanyConfigError for the first failing field; the     *)
(* call constructs no client, starts no exchange and leaves the tenant      *)
(* cache as it was.                                                         *)
InvalidReturnsWrappedError ==
  [][\A t \in Threads :
       /\ (pc[t] = "idle" /\ pc'[t] = "gc_fail")
            => LET e == local'[t].error
                   cfg == local'[t].cfg
               IN /\ e.prefix = "invalid company config"
                  /\ e.cause
                  /\ [e EXCEPT !.prefix = ""] = ValidateCompanyConfig(cfg)
                  /\ e.field # ""
                  /\ local'[t].client = NoClient
                  /\ UNCHANGED <<mgrVars, authVars>>
       /\ (pc[t] = "gc_fail" /\ pc'[t] # "gc_fail")
            => (pc'[t] = "idle" /\ UNCHANGED <<mgrVars, authVars>>)]_vars

(* C20 witness: a call with an unknown environment is about to return its   *)
(* error while the cache holds a client                                     *)
InvalidReturnsWitness ==
  \E t \in Threads :
    /\ pc[t] = "gc_fail"
    /\ local[t].error.field = "environment"
    /\ local[t].cfg.id = "A"
    /\ Present(clientCache) # {}

----------------------------------------------------------------------------
(* Properties of the ticket cache *)

(* The call of t is a GetToken that took its ticket from the cache *)
CacheHit(t) == pc[t] \in {"gfc_runlock", "gt_return"} /\ local[t].hit

SecondCallReuses ==
  [][\A t \in Threads :
       /\ (pc[t] = "gfc_lookup" /\ pc'[t] = "gfc_runlock"
             /\ held[t].svc = local[t].svc /\ held[t].token # NoToken
             /\ now + SkewMinutes < held[t].token.exp)
            => (local'[t].hit /\ local'[t].token = held[t].token)
       /\ (pc[t] = "gt_return" /\ pc'[t] = "idle"
             /\ held[t].svc = local[t].svc /\ held[t].token # NoToken
             /\ local[t].tnow + SkewMinutes < held[t].token.exp /\ local[t].seen # NoToken)
            => (local[t].xid = 0 /\ held'[t].token = held[t].token)]_vars

(* C9 witness: the second of two successive calls for one key returns, from *)
(* the cache, the ticket the first call obtained, after one exchange in all *)
SecondCallWitness ==
  \E t \in Threads :
    /\ pc[t] = "gt_return" /\ local[t].hit
    /\ held[t].svc = local[t].svc
    /\ held[t].token = local[t].token
    /\ held[t].token.id = 1
    /\ exchanges = 1

(* C10: a lookup that finds a ticket with now + 5 minutes >= expiration     *)
(* deletes the entry and misses; the call then performs a new exchange and, *)
(* on success, the entry for the key is the ticket just obtained.           *)
ExpiredRefetched ==
  [][\A t \in Threads :
       /\ (pc[t] = "gfc_lookup" /\ pc'[t] = "gfc_runlock"
             /\ cache[local[t].svc] # NoToken
             /\ now + SkewMinutes >= cache[local[t].svc].exp)
            => (~local'[t].hit /\ cache'[local[t].svc] = NoToken
                  /\ local'[t].seen = cache[local[t].svc])
       /\ (local[t].seen # NoToken /\ ~local[t].hit /\ certOK
             /\ pc[t] = "gen_start" /\ pc'[t] # "gen_start")
            => (exchanges' = exchanges + 1 /\ pc'[t] = "gen_wait")
       /\ (local[t].seen # NoToken /\ ~local[t].hit
             /\ pc[t] = "atc_lock" /\ pc'[t] = "atc_unlock")
            => (cache'[local[t].svc] = local[t].token
                  /\ local[t].token.id = local[t].xid
                  /\ local[t].token # local[t].seen)
       /\ (local[t].seen # NoToken /\ ~local[t].hit /\ pc'[t] = "gt_return"
             /\ pc[t] # "gt_return")
            => (local'[t].err \/ (local[t].xid > local[t].seen.id
                                    /\ cache'[local[t].svc] = local'[t].token))]_vars

(* C10 witness: the ticket found expires four minutes after the lookup, and *)
(* the call has stored the ticket of a new exchange                         *)
ExpiredRefetchedWitness ==
  \E t \in Threads :
    /\ pc[t] = "atc_unlock"
    /\ local[t].seen # NoToken
    /\ local[t].seen.exp = local[t].tnow + 4
    /\ cache[local[t].svc] = local[t].token
    /\ local[t].token.id > local[t].seen.id

----------------------------------------------------------------------------
(* Properties of the tenant client *)

EmptyCache == [s \in ServiceKeys |-> NoToken]

(* Some Close on the client has returned *)
CloseReturned == closed /\ \A t \in Threads : ~Calling(t, "Close")

(* C11: an operation other than Close that is called on a CLOSED client     *)
(* fails with ClientClosed and goes on to no ticket acquisition.            *)
ClosedOpsFail ==
  [][\A t \in Threads :
       (closed /\ Calling(t, NoOp) /\ ~Calling(t, NoOp)' /\ ~Calling(t, "Close")')
         => (frame'[t].result = "ClientClosed" /\ pc'[t] \notin {"ih_call", "ai_call"})]_vars

(* C12: once a Close on the client has returned, its ticket cache is empty, *)
(* whatever calls were in flight during Close or are made afterwards.       *)
ClosedCacheEmpty == CloseReturned => cache = EmptyCache

(* C13: CLOSED is never left; the Close that finds the client OPEN sets     *)
(* CLOSED and clears the ticket cache; a Close that finds it CLOSED changes *)
(* neither the flag nor the ticket cache; every Close returns nil.          *)
CloseIdempotent ==
  [][/\ closed => closed'
     /\ \A t \in Threads :
          /\ (pc[t] = "cls_lock" /\ pc'[t] # "cls_lock" /\ ~closed)
                => (closed' /\ pc'[t] = "cls_clear")
          /\ (pc[t] = "cls_clear" /\ pc'[t] # "cls_clear")
                => (closed' /\ cache' = EmptyCache)
          /\ (pc[t] = "cls_lock" /\ pc'[t] # "cls_lock" /\ closed)
                => (pc'[t] = "cls_noop" /\ UNCHANGED <<closed, cache, exchanges>>)
          /\ (Calling(t, "Close") /\ pc'[t] = "idle")
                => (frame[t].result = "nil" /\ UNCHANGED <<closed, cache, exchanges>>)]_vars

(* C13 witness: a Close that raced with the first one found the client      *)
(* CLOSED and is returning, while a ticket acquisition is still in flight   *)
CloseIdempotentWitness ==
  \E t, u \in Threads :
    /\ pc[t] = "cls_noop"
    /\ Calling(u, "AuthorizeInvoice") /\ pc[u] = "gen_wait"

(* C14: a Close that has been called never waits for the client lock while  *)
(* that lock is held by a call whose network exchange is pending.           *)
CloseNotBlocked ==
  \A u \in Threads :
    pc[u] = "cls_lock" => ~\E t \in mutex.readers : pc[t] = "gen_wait"

----------------------------------------------------------------------------
(* C21: ValidateCompanyConfig returns an error exactly when the             *)
(* configuration is nil, or its company id is empty, or its CUIT is empty   *)
(* or not of the shape DD-DDDDDDDD-D with a correct check digit, or its     *)
(* certificate is empty, or its private key is empty, or its environment is *)
(* neither testing nor production.                                          *)
WellFormed(cfg) ==
  /\ ~cfg.nil
  /\ cfg.id # NoID
  /\ cfg.cuit # NoCUIT
  /\ MatchCUIT(cfg.cuit)
  /\ validateCUITCheckDigit(cfg.cuit)
  /\ cfg.cert # 0
  /\ cfg.key # 0
  /\ cfg.env \in {"testing", "production"}

ValidatesExactly ==
  \A t \in Threads :
    pc[t] = "vc_return" => (local[t].error = NoError <=> WellFormed(local[t].cfg))

(* C22: a configuration with the CUIT 20-12345678-3 and every other field   *)
(* in order is accepted; the same configuration with the CUIT 20-12345678-9 *)
(* is rejected with an error on the field cuit.                             *)
CUITVectors ==
  \A t \in Threads :
    (/\ pc[t] = "vc_return"
     /\ WellFormed([local[t].cfg EXCEPT !.cuit = CUIT6])) =>
       /\ local[t].cfg.cuit = CUIT3 => local[t].error = NoError
       /\ local[t].cfg.cuit = CUIT9 =>
            /\ local[t].error # NoError
            /\ local[t].error.field = "cuit"

----------------------------------------------------------------------------
(* C23: a GetToken call that fails (certificate or key parse, signing,      *)
(* transport, status other than 200, unparsable response) returns the error *)
(* and no ticket; none of its steps inserts an entry, the failing step and  *)
(* the return leave the cache as it is, and the steps before them change    *)
(* at most the call's own key, by removing its expired entry.               *)
BeforeInsert == {"gfc_lookup", "gfc_runlock", "gen_start", "gen_wait"}

FailedCallInsertsNothing ==
  [][\A t \in Threads :
       pc'[t] # pc[t] =>
         /\ (local'[t].err /\ pc'[t] = "gt_return") => cache' = cache
         /\ (local[t].err /\ pc[t] = "gt_return") =>
              /\ cache' = cache
              /\ held'[t] = NoHeld
              /\ local[t].token = NoToken
              /\ local[t].error # NoError
         /\ pc[t] \in BeforeInsert =>
              \A k \in ServiceKeys :
                cache'[k] # cache[k] => k = local[t].svc /\ cache'[k] = NoToken
         /\ local[t].err => pc'[t] # "atc_lock"]_vars

FailedCallWitness ==
  \E t \in Threads :
    /\ pc[t] = "gt_return"
    /\ local[t].err
    /\ local[t].xid > 0
    /\ cache[local[t].svc] = NoToken
    /\ \E k \in ServiceKeys \ {local[t].svc} : cache[k] # NoToken

(* C24: when GetToken calls for one key run concurrently and succeed, each  *)
(* returns a ticket; addToCache overwrites the key's entry with the         *)
(* caller's ticket and touches no other key, so the entry is the ticket     *)
(* inserted last; an absent key becomes present only by the addToCache of a *)
(* call for that key, so the cache never has more entries than keys         *)
(* requested.                                                               *)
LastInsertWins ==
  [][\A t \in Threads :
       pc'[t] # pc[t] =>
         /\ pc[t] = "atc_lock" =>
              /\ local[t].token # NoToken
              /\ cache' = [cache EXCEPT ![local[t].svc] = local[t].token]
         /\ \A k \in ServiceKeys :
              (cache[k] = NoToken /\ cache'[k] # NoToken) =>
                 pc[t] = "atc_lock" /\ local[t].svc = k
         /\ (pc[t] = "gt_return" /\ ~local[t].err) =>
              /\ local[t].token # NoToken
              /\ held'[t] = [svc |-> local[t].svc, token |-> local[t].token]]_vars

LastInsertWitness ==
  \E t, u \in Threads :
    /\ t # u
    /\ pc[t] = "atc_unlock"
    /\ pc[u] = "gt_return"
    /\ ~local[u].err
    /\ local[u].xid > 0
    /\ local[u].svc = local[t].svc
    /\ local[u].token # local[t].token
    /\ cache[local[t].svc] = local[t].token

----------------------------------------------------------------------------
(* C25: IsHealthy on an open client asks for the ticket of the key wsfe and *)
(* returns nil exactly when GetToken returned a ticket; AuthorizeInvoice    *)
(* through the WSFE handle asks the same auth service for the same key, so  *)
(* when the entry of wsfe is valid it takes that ticket from the cache and  *)
(* returns without an exchange.                                             *)
HealthCheckSharesTicket ==
  [][\A t \in Threads :
       pc'[t] # pc[t] =>
         /\ pc[t] \in {"ih_call", "ai_call"} => local'[t].svc = "wsfe"
         /\ pc[t] = "ih_check" =>
              /\ frame'[t].result \in {"nil", "HealthCheckFailed"}
              /\ frame'[t].result = "nil" <=>
                    (held[t].svc = "wsfe" /\ held[t].token # NoToken)
         /\ (/\ pc[t] = "gfc_lookup"
             /\ Calling(t, "AuthorizeInvoice")
             /\ cache["wsfe"] # NoToken
             /\ TokenValid(cache["wsfe"], now)) =>
               /\ local'[t].hit
               /\ local'[t].token = cache["wsfe"]
         /\ (pc[t] = "gfc_runlock" /\ local[t].hit) =>
               /\ pc'[t] = "gt_return"
               /\ exchanges' = exchanges]_vars

HealthCheckWitness ==
  \E t, u \in Threads :
    /\ Calling(t, "IsHealthy")
    /\ pc[t] = "gt_return"
    /\ local[t].xid > 0
    /\ ~local[t].err
    /\ Calling(u, "AuthorizeInvoice")
    /\ pc[u] = "gt_return"
    /\ local[u].hit
    /\ local[u].xid = 0
    /\ local[u].token = local[t].token

----------------------------------------------------------------------------
(* C26: a GetToken whose context is cancelled during the exchange returns   *)
(* an error that the caller recognises as a cancellation                    *)
(* (errors.Is(err, context.Canceled)) and that is not an HTTP timeout, and  *)
(* the call has made no ticket to insert.                                   *)
IsCanceled(e) == e.cause /\ e.text = "context canceled"
IsTimeout(e) == e.cause /\ e.text = "Client.Timeout exceeded"

CancelledDuringExchange(t) ==
  /\ pc[t] = "gt_return"
  /\ local[t].err
  /\ local[t].xid > 0
  /\ local[t].error.text = "context canceled"

CancellationRecognisable ==
  \A t \in Threads :
    CancelledDuringExchange(t) =>
      /\ IsCanceled(local[t].error)
      /\ ~IsTimeout(local[t].error)
      /\ local[t].token = NoToken

(* C27: the destination written into the login request is the one of the   *)
(* endpoint the request is sent to: the homologation destination goes to    *)
(* the homologation endpoint and to no other.                               *)
DestinationMatchesEndpoint ==
  \A t \in Threads :
    pc[t] = "gen_wait" =>
      (local[t].request.xml.destination = Destination("testing")
         <=> local[t].request.url = getWSAAURL("testing"))

(* C28: the message sent carries the RSA signature of the request made with *)
(* the tenant's private key and the tenant's certificate, and the same      *)
(* request signed with another key gives another message.                   *)
MessageSigned ==
  \A t \in Threads :
    pc[t] = "gen_wait" =>
      LET request == local[t].request
      IN  /\ request.cms.signature =
               SignPKCS1v15(config.PrivateKey, Sum(request.xml))
          /\ config.Certificate \in request.cms.certificates
          /\ \A k \in PrivateKeys \ {config.PrivateKey} :
               createCMS(request.xml, config.Certificate, k) # request.cms

----------------------------------------------------------------------------
(* C29: the cache of a new auth service has size 0; a ClearCache step       *)
(* leaves a cache of size 0 whatever it held, sets no error, and changes    *)
(* nothing when the cache is already empty (so two ClearCache in a row      *)
(* leave what one leaves); GetCacheSize returns the number of entries.      *)
ClearCacheEmpties ==
  /\ CacheSize(cache) = 0
  /\ [][\A t \in Threads :
         /\ (pc[t] # "clr_unlock" /\ pc'[t] = "clr_unlock") =>
              /\ CacheSize(cache') = 0
              /\ ~local'[t].err
              /\ local'[t].error = NoError
              /\ CacheSize(cache) = 0 => cache' = cache
         /\ (pc[t] = "clr_unlock" /\ pc'[t] # pc[t]) =>
              /\ cache' = cache
              /\ pc'[t] = ReturnTo(t)
         /\ (pc[t] # "gcs_runlock" /\ pc'[t] = "gcs_runlock") =>
              local'[t].size = CacheSize(cache)]_vars

ClearCacheWitness ==
  \E t, u \in Threads :
    /\ pc[t] = "gcs_runlock"
    /\ local[t].size = 0
    /\ held[u].token # NoToken
    /\ ticks = 0

----------------------------------------------------------------------------
(* C30: when the manager has been released, its tenant cache is empty and   *)
(* Close has been invoked on every client it had cached: no cached client   *)
(* is left un-Closed.                                                       *)
Released == \A t \in Threads : pc[t] = "released"

ReleasedAllClosed ==
  Released =>
    /\ CacheLen(clientCache) = 0
    /\ \A c \in 1..nClients : clients[c].closed

----------------------------------------------------------------------------
(* C31: Config.Validate of the flat client returns an error exactly when    *)
(* the environment is neither testing nor production, or the CUIT is empty  *)
(* or not of the shape NN-NNNNNNNN-N (N a digit), or the certificate or the *)
(* key is empty, or Timeout <= 0, RetryAttempts < 0, RetryDelay < 0 or      *)
(* AuthCacheTTL <= 0; 20-12345678-9 is accepted; the constructor returns an *)
(* error exactly when Validate does.                                        *)
FlatWellFormed(c) ==
  /\ c.env \in {"testing", "production"}
  /\ c.cuit # NoCUIT
  /\ MatchCUIT(c.cuit)
  /\ c.cert # 0
  /\ c.key # 0
  /\ c.timeout > 0
  /\ c.retryAttempts >= 0
  /\ c.retryDelay >= 0
  /\ c.authCacheTTL > 0

FlatValidatesExactly ==
  \A t \in Threads :
    /\ pc[t] \in {"cv_return", "nc_return"} =>
         (local[t].errors = <<>> <=> FlatWellFormed(local[t].flat))
    /\ pc[t] = "nc_return" =>
         (local[t].error # NoError <=> Validate(local[t].flat) # <<>>)

(* C36: ValidateCUIT accepts a string exactly when it has the shape         *)
(* DD-DDDDDDDD-D and its last digit is the check digit of the ten digits    *)
(* before it: weights 5,4,3,2,7,6,5,4,3,2, sum modulo 11; remainder 0 gives *)
(* 0, remainder 1 gives 9 for the prefixes 20, 23, 24, 27, 30, 33, 34 and 0 *)
(* otherwise, any other remainder r gives 11 - r.                           *)
DigitAt(x, i) == CHOOSE d \in 0..9 : DigitChars[d + 1] = x[i]

LawDigit(x) ==
  LET sum == 5 * DigitAt(x, 1) + 4 * DigitAt(x, 2) + 3 * DigitAt(x, 4)
             + 2 * DigitAt(x, 5) + 7 * DigitAt(x, 6) + 6 * DigitAt(x, 7)
             + 5 * DigitAt(x, 8) + 4 * DigitAt(x, 9) + 3 * DigitAt(x, 10)
             + 2 * DigitAt(x, 11)
      r == sum % 11
      prefix == 10 * DigitAt(x, 1) + DigitAt(x, 2)
  IN  CASE r = 0 -> 0
        [] r = 1 -> IF prefix \in {20, 23, 24, 27, 30, 33, 34} THEN 9 ELSE 0
        [] OTHER -> 11 - r

HasShape(x) ==
  /\ Len(x) = 13
  /\ x[3] = "-"
  /\ x[12] = "-"
  /\ \A i \in (1..13) \ {3, 12} : x[i] \in DigitSet

CheckDigitLaw ==
  \A t \in Threads :
    pc[t] = "vcuit_return" =>
      (local[t].error = NoError <=>
         (HasShape(local[t].cuit) /\ DigitAt(local[t].cuit, 13) = LawDigit(local[t].cuit)))

CheckDigitWitness ==
  \E t \in Threads :
    /\ pc[t] = "vcuit_return"
    /\ local[t].error = NoError
    /\ local[t].cuit = CUITRem1

----------------------------------------------------------------------------
(* C32: a thread that holds the writer lock of the tenant cache never waits *)
(* for an exchange in flight: it is never stopped at the lock of a client   *)
(* that a caller holds while its GetToken waits for the WSAA response.      *)
WaitsForExchange(t) ==
  /\ pc[t] = "cls_lock"
  /\ \E u \in mutex.readers : pc[u] = "gen_wait"

NoExchangeUnderCacheLock ==
  \A t \in Threads : cacheMutex.writer = t => ~WaitsForExchange(t)

(* C33: the tenant map and its entries' lastUsed, and the ticket map, are   *)
(* changed only by a thread that holds the writer lock of that map.         *)
WritesUnderWriterLock ==
  [][/\ clientCache' # clientCache =>
          (cacheMutex.writer # NoThread \/ cacheMutex'.writer # NoThread)
     /\ cache' # cache =>
          (authMutex.writer # NoThread \/ authMutex'.writer # NoThread)]_vars

----------------------------------------------------------------------------
(* C34: under fair scheduling and a transport that answers, every call      *)
(* that has started eventually returns.                                     *)
CallsReturn ==
  \A t \in Threads : (frame[t].op # NoOp) ~> (frame[t].op = NoOp)

----------------------------------------------------------------------------
(* C35: when an insertion evicts and several entries share the minimal      *)
(* last-used time, the entry evicted is the one created first.              *)
Evicted(t) ==
  {v \in Present(clientCache) \ {local[t].id} : clientCache'[v].client = NoClient}

EvictionTieByCreatedAt ==
  [][\A t \in Threads :
       (pc[t] = "cc_lock" /\ pc'[t] = "cc_unlock") =>
         \A v \in Evicted(t) :
           \A o \in Present(clientCache) :
             clientCache[o].lastUsed = clientCache[v].lastUsed =>
               clientCache[v].createdAt <= clientCache[o].createdAt]_vars

(* C37: an insertion for a tenant that already has an entry changes no      *)
(* other tenant's entry, also when the cache is at its bound.               *)
ReinsertionEvictsNothing ==
  [][\A t \in Threads :
       (/\ pc[t] = "cc_lock"
        /\ pc'[t] = "cc_unlock"
        /\ clientCache[local[t].id].client # NoClient) =>
         \A o \in Present(clientCache) \ {local[t].id} :
           clientCache'[o] = clientCache[o]]_vars

(* C38: the active count of GetCacheStats is the number of entries that a   *)
(* lookup at the same instant treats as fresh, an entry whose age is        *)
(* exactly ClientIdleTimeout included.                                      *)
FreshIDs(cc, t) == {id \in Present(cc) : ~IsExpired(cc[id].lastUsed, t)}

StatsAgreeWithLookup ==
  \A t \in Threads :
    (pc[t] = "st_runlock" /\ now = local[t].tnow) =>
      local[t].stats.active = Cardinality(FreshIDs(clientCache, local[t].tnow))

----------------------------------------------------------------------------
(* C39: every ticket a GetToken call is about to return, and every ticket   *)
(* in the cache, has a non-empty token and a non-empty signature.           *)
HasCredentials(token) == token.token # "" /\ token.sign # ""

TicketsHaveCredentials ==
  /\ \A s \in ServiceKeys : cache[s] # NoToken => HasCredentials(cache[s])
  /\ \A t \in Threads :
       (pc[t] = "gt_return" /\ ~local[t].err) => HasCredentials(local[t].token)

----------------------------------------------------------------------------
(* C40: a ticket a client returns comes from an exchange whose request      *)
(* names the fiscal identifier of the client's tenant and is signed with    *)
(* that tenant's private key, or from the client's own cache, which holds   *)
(* only tickets of such exchanges: no ticket of another tenant is returned. *)
SignedFor(request) ==
  /\ request.xml.source = config.CUIT
  /\ request.cms.signature = SignPKCS1v15(config.PrivateKey, Sum(request.xml))

OwnExchange(t) == local[t].token.id = local[t].xid /\ SignedFor(local[t].request)

TicketsOfOwnTenant ==
  /\ \A t \in Threads :
       (pc[t] = "gt_return" /\ ~local[t].err /\ ~local[t].hit) => OwnExchange(t)
  /\ [][\A t \in Threads :
         /\ (pc[t] = "gfc_lookup" /\ local'[t].hit)
              => local'[t].token = cache[local[t].svc]
         /\ \A s \in ServiceKeys :
              (pc[t] = "atc_lock" /\ cache'[s] # cache[s] /\ cache'[s] # NoToken)
                => (cache'[s] = local[t].token /\ OwnExchange(t))]_vars

====
